---- MODULE Spec2Model ----
(***************************************************************************)
(* Model of the Prime Dictation Lambda functions:                          *)
(*   - pd-email-sender, authenticated handler  (index.mjs lines 627-902)   *)
(*   - pd-email-sender, attach-vs-link handler without authentication      *)
(*     (index.mjs lines 120-476)                                           *)
(*   - pd-presign-upload handler               (pd-presign-upload)         *)
(*   - auth.mjs verifyFirebase                                             *)
(*                                                                         *)
(* Strings are sequences of tokens.  A token is a TLA+ string holding one  *)
(* character or one literal fragment of a template; keys, prefixes and     *)
(* e-mail addresses are spelled character by character so that            *)
(* startsWith, lastIndexOf and trim are computed as JavaScript computes    *)
(* them.                                                                   *)
(***************************************************************************)
EXTENDS Integers, Sequences, FiniteSets, TLC

VARIABLES
    fn,        \* which Lambda handler serves the invocation
    env,       \* process.env as read by the handlers
    event,     \* the parts of the event fixed at invocation: preflight flag, Authorization header
    pc,        \* position of the handler
    user,      \* decoded token (uid) once verifyFirebase has returned
    payload,   \* JSON.parse(event.body), once read
    toEmail,   \* trimmed recipient
    items,     \* [{key, label}] gathered from the payload
    cb,        \* per item: state of the async map callback (validate + head)
    mode,      \* "none" | "Attachments" | "Links"
    fetchIdx,  \* index of the item whose bytes are being fetched (Attachments loop)
    parts,     \* attachment parts built so far
    links,     \* per item: state of the presign callback
    calls,     \* log of collaborator calls in issue order (storage and e-mail sink)
    sent,      \* the SendEmailCommand handed to the e-mail sink
    response,  \* what the handler returned
    rIn,       \* renderer input  {links, hasAttachments}   (renderer specification)
    rOut       \* renderer output {html, text}              (renderer specification)

vars == <<fn, env, event, pc, user, payload, toEmail, items, cb, mode, fetchIdx,
          parts, links, calls, sent, response, rIn, rOut>>

-----------------------------------------------------------------------------
(* JavaScript string helpers                                               *)

\* String.prototype.startsWith
startsWith(s, p) ==
    /\ Len(p) <= Len(s)
    /\ SubSeq(s, 1, Len(p)) = p

\* String.prototype.endsWith
endsWith(s, p) ==
    /\ Len(p) <= Len(s)
    /\ SubSeq(s, Len(s) - Len(p) + 1, Len(s)) = p

\* String.prototype.lastIndexOf for a one-character needle, 1-based; 0 when absent
lastIndexOf(s, c) ==
    IF \E i \in 1..Len(s) : s[i] = c
    THEN CHOOSE i \in 1..Len(s) : s[i] = c /\ \A j \in (i+1)..Len(s) : s[j] # c
    ELSE 0

WhiteSpace == {" ", "\t", "\n", "\r"}

\* String.prototype.trim
trim(s) ==
    IF \A i \in 1..Len(s) : s[i] \in WhiteSpace
    THEN <<>>
    ELSE LET a == CHOOSE i \in 1..Len(s) :
                     s[i] \notin WhiteSpace /\ \A j \in 1..(i-1) : s[j] \in WhiteSpace
             b == CHOOSE i \in 1..Len(s) :
                     s[i] \notin WhiteSpace /\ \A j \in (i+1)..Len(s) : s[j] \in WhiteSpace
         IN SubSeq(s, a, b)

RECURSIVE Concat(_)
\* Array.prototype.join("") of a list of strings
Concat(ss) == IF ss = <<>> THEN <<>> ELSE Head(ss) \o Concat(Tail(ss))

RECURSIVE Join(_, _)
\* Array.prototype.join(sep)
Join(ss, sep) ==
    IF ss = <<>> THEN <<>>
    ELSE IF Len(ss) = 1 THEN Head(ss)
    ELSE Head(ss) \o sep \o Join(Tail(ss), sep)

Range(s) == {s[i] : i \in 1..Len(s)}

-----------------------------------------------------------------------------
(* Values                                                                  *)

\* the request keys and prefixes, character by character
RECORDINGS_PREFIX == <<"r","e","c","o","r","d","i","n","g","s","/">>
TRANSCRIPTIONS_PREFIX == <<"t","r","a","n","s","c","r","i","p","t","i","o","n","s","/">>
UsersSlash == <<"u","s","e","r","s","/">>

Uid1 == <<"u","1">>

KeyRecA    == RECORDINGS_PREFIX \o <<"a",".","m","4","a">>
KeyTrT     == TRANSCRIPTIONS_PREFIX \o <<"t",".","t","x","t">>
KeySecret  == <<"s","e","c","r","e","t","s","/","f","o","o",".","m","4","a">>
KeyU1A     == UsersSlash \o Uid1 \o <<"/","a",".","m","4","a">>
KeyU1T     == UsersSlash \o Uid1 \o <<"/","t",".","t","x","t">>
KeyU10A    == UsersSlash \o <<"u","1","0","/","a",".","m","4","a">>
NoKey      == <<>>

\* recordingKey / transcriptionKey values a request may carry (NoKey: field absent or "")
RecordingKeyPool == {NoKey, KeyRecA, KeySecret, KeyU1A, KeyU10A}
TranscriptionKeyPool == {NoKey, KeyTrT, KeySecret, KeyU1T}

\* toEmail values: JSON values of several types
JsUndef == [t |-> "undefined", s |-> <<>>, n |-> 0]
JsStr(s) == [t |-> "string", s |-> s, n |-> 0]
JsNum(n) == [t |-> "number", s |-> <<>>, n |-> n]

Addr == <<"a","@","b",".","c">>
ToEmailPool == {JsUndef, JsStr(<<>>), JsStr(<<" "," ">>), JsStr(Addr),
                JsStr(<<" ">> \o Addr \o <<" ">>), JsNum(5), JsNum(0)}

\* JavaScript truthiness of the values above
truthy(v) ==
    CASE v.t = "undefined" -> FALSE
      [] v.t = "string"    -> v.s # <<>>
      [] v.t = "number"    -> v.n # 0

\* Authorization header values
NoHeader == [scheme |-> "none", tok |-> "none"]
AuthHeaderPool ==
    {NoHeader,
     [scheme |-> "basic",  tok |-> "bad"],
     [scheme |-> "bearer", tok |-> "good"],
     [scheme |-> "bearer", tok |-> "bad"],
     [scheme |-> "bare",   tok |-> "good"]}

\* errors: statusCode 0 stands for "the error object has no statusCode property"
NoStatus == 0
Err(name, code) == [name |-> name, statusCode |-> code]
NoErr == Err("none", NoStatus)

\* object sizes the metadata probe may report
MB == 1048576
SES_MAX_BYTES == 10 * MB
\* mutant: no allowance for headers and bodies
MIME_OVERHEAD_BYTES_None == 0 * 1024

MIME_OVERHEAD_BYTES == 48 * 1024
SizePool == {0, 1, 1048575, 6291456, 7827452, 7827453}

\* ATTACHMENT_MAX_MB settings: "9" (also the default when unset) and "1"
AttachMaxPool == {"9", "1"}

\* parseFloat on the settings above; 0 stands for NaN as well (both are falsy)
parseFloat(v) ==
    CASE v = "9" -> 9
      [] v = "1" -> 1
      [] OTHER   -> 0

ATTACH_LIMIT_MB(e) ==
    LET v == parseFloat(e.ATTACHMENT_MAX_MB) IN IF v = 0 THEN 9 ELSE v

-----------------------------------------------------------------------------
(* auth.mjs                                                                *)

\* initFirebase: throws a plain Error when FIREBASE_PROJECT_ID is not set
initFirebase(e) ==
    IF e.FIREBASE_PROJECT_ID THEN NoErr ELSE Err("ConfigError", NoStatus)

\* extractAuthHeader: "Bearer <token>" or a bare three-segment JWT, else null ("none")
extractAuthHeader(h) ==
    IF h.scheme \in {"bearer", "bare"} THEN h.tok ELSE "none"

\* getAuth().verifyIdToken: the identity provider accepts the token or throws
verifyIdToken(tok) == tok = "good"

\* mutant: the error for a rejected token thrown without its statusCode
verifyFirebase_NoStatus(e, h) ==
    LET token == extractAuthHeader(h) IN
    IF initFirebase(e) # NoErr THEN [err |-> initFirebase(e), uid |-> <<>>]
    ELSE IF token = "none" THEN [err |-> Err("MissingBearer", 401), uid |-> <<>>]
    ELSE IF verifyIdToken(token) THEN [err |-> NoErr, uid |-> Uid1]
    ELSE [err |-> Err("InvalidToken", NoStatus), uid |-> <<>>]

\* verifyFirebase(event): [err, uid]
verifyFirebase(e, h) ==
    LET token == extractAuthHeader(h) IN
    IF initFirebase(e) # NoErr THEN [err |-> initFirebase(e), uid |-> <<>>]
    ELSE IF token = "none" THEN [err |-> Err("MissingBearer", 401), uid |-> <<>>]
    ELSE IF verifyIdToken(token) THEN [err |-> NoErr, uid |-> Uid1]
    ELSE [err |-> Err("InvalidToken", 401), uid |-> <<>>]

\* pd-presign-upload's own verifyFirebase: only "Bearer <token>", no project-id check
presignVerifyFirebase(h) ==
    IF h.scheme # "bearer" THEN [err |-> Err("MissingBearer", 401), uid |-> <<>>]
    ELSE IF verifyIdToken(h.tok) THEN [err |-> NoErr, uid |-> Uid1]
    ELSE [err |-> Err("InvalidToken", 401), uid |-> <<>>]

-----------------------------------------------------------------------------
(* pd-email-sender helpers                                                 *)

\* mutant: the tenancy prefix built without its closing slash
validateKeyPrefix_NoSlash(key, uid, e) ==
    IF e.REQUIRE_UID_PREFIX
    THEN IF ~startsWith(key, UsersSlash \o uid)
         THEN Err("Forbidden", 403)
         ELSE NoErr
    ELSE IF ~startsWith(key, RECORDINGS_PREFIX) /\ ~startsWith(key, TRANSCRIPTIONS_PREFIX)
         THEN Err("InvalidKey", 400)
         ELSE NoErr

\* validateKeyPrefix(key, uid) of the authenticated handler: the error thrown, or NoErr
validateKeyPrefix(key, uid, e) ==
    IF e.REQUIRE_UID_PREFIX
    THEN IF ~startsWith(key, UsersSlash \o uid \o <<"/">>)
         THEN Err("Forbidden", 403)
         ELSE NoErr
    ELSE IF ~startsWith(key, RECORDINGS_PREFIX) /\ ~startsWith(key, TRANSCRIPTIONS_PREFIX)
         THEN Err("InvalidKey", 400)
         ELSE NoErr

\* validateKeyPrefix(key) of the unauthenticated handler: a plain Error, prefixes only
validateKeyPrefixV2(key) ==
    IF ~startsWith(key, RECORDINGS_PREFIX) /\ ~startsWith(key, TRANSCRIPTIONS_PREFIX)
    THEN Err("InvalidKey", NoStatus)
    ELSE NoErr

\* mutant: the whole key is taken as the filename
filenameFromKey_WholeKey(key) == key

filenameFromKey(key) ==
    LET i == lastIndexOf(key, "/") IN
    IF i >= 1 THEN SubSeq(key, i + 1, Len(key)) ELSE key

UpperCase == <<"A","B","C","D","E","F","G","H","I","J","K","L","M",
               "N","O","P","Q","R","S","T","U","V","W","X","Y","Z">>
LowerCase == <<"a","b","c","d","e","f","g","h","i","j","k","l","m",
               "n","o","p","q","r","s","t","u","v","w","x","y","z">>

toLowerCase(s) ==
    [i \in 1..Len(s) |->
        IF \E k \in 1..26 : UpperCase[k] = s[i]
        THEN LowerCase[CHOOSE k \in 1..26 : UpperCase[k] = s[i]]
        ELSE s[i]]

\* mutant: the key is not lower-cased before the comparison
inferContentType_CaseSensitive(key) ==
    IF endsWith(key, <<".","m","4","a">>) THEN <<"audio/mp4">>
    ELSE IF endsWith(key, <<".","m","p","3">>) THEN <<"audio/mpeg">>
    ELSE IF endsWith(key, <<".","w","a","v">>) THEN <<"audio/wav">>
    ELSE IF endsWith(key, <<".","t","x","t">>) THEN <<"text/plain; charset=UTF-8">>
    ELSE IF endsWith(key, <<".","j","s","o","n">>) THEN <<"application/json">>
    ELSE <<"application/octet-stream">>

inferContentType(key) ==
    LET lower == toLowerCase(key) IN
    IF endsWith(lower, <<".","m","4","a">>) THEN <<"audio/mp4">>
    ELSE IF endsWith(lower, <<".","m","p","3">>) THEN <<"audio/mpeg">>
    ELSE IF endsWith(lower, <<".","w","a","v">>) THEN <<"audio/wav">>
    ELSE IF endsWith(lower, <<".","t","x","t">>) THEN <<"text/plain; charset=UTF-8">>
    ELSE IF endsWith(lower, <<".","j","s","o","n">>) THEN <<"application/json">>
    ELSE <<"application/octet-stream">>

\* line 688 (192): head.ContentType || inferContentType(key); <<>> is an omitted or empty type
resolveContentType(ct, key) == IF ct # <<>> THEN ct ELSE inferContentType(key)

\* Math.ceil(n / 3) for n >= 0
ceilDiv3(n) == (n + 2) \div 3

RECURSIVE totalBase64(_)
totalBase64(metaList) ==
    IF metaList = <<>> THEN 0
    ELSE ceilDiv3(Head(metaList).size) * 4 + totalBase64(Tail(metaList))

\* mutant: the ceiling compared with <= instead of <
fitsSesLimitWhenBase64_Le(metaList) ==
    (totalBase64(metaList) + MIME_OVERHEAD_BYTES) <= SES_MAX_BYTES

fitsSesLimitWhenBase64(metaList) ==
    (totalBase64(metaList) + MIME_OVERHEAD_BYTES) < SES_MAX_BYTES

\* meta.find(m => m.label === label): the first match, or a record with found = FALSE
metaFind(metaList, label) ==
    IF \E i \in 1..Len(metaList) : metaList[i].label = label
    THEN LET i == CHOOSE i \in 1..Len(metaList) :
                     /\ metaList[i].label = label
                     /\ \A j \in 1..(i-1) : metaList[j].label # label
         IN [found |-> TRUE, size |-> metaList[i].size]
    ELSE [found |-> FALSE, size |-> 0]

\* mutant: a recording is attached whatever its size
wantAttachments_AnySize(metaList, e) == metaFind(metaList, "Recording").found

\* lines 699-703: totalBytes and wantAttachments
wantAttachments(metaList, e) ==
    LET recordingMeta == metaFind(metaList, "Recording")
        transcriptionMeta == metaFind(metaList, "Transcription")
        totalBytes == recordingMeta.size + transcriptionMeta.size
    IN /\ recordingMeta.found
       /\ totalBytes <= ATTACH_LIMIT_MB(e) * MB
       /\ fitsSesLimitWhenBase64(metaList)

\* lines 205-210 of the unauthenticated handler (reached only with a recording)
wantAttachmentsV2(metaList, e) ==
    LET recordingMeta == metaFind(metaList, "Recording")
        transcriptionMeta == metaFind(metaList, "Transcription")
        sumOfFiles == IF transcriptionMeta.size # 0
                      THEN recordingMeta.size + transcriptionMeta.size
                      ELSE recordingMeta.size
    IN /\ recordingMeta.found
       /\ sumOfFiles <= ATTACH_LIMIT_MB(e) * MB
       /\ fitsSesLimitWhenBase64(metaList)

-----------------------------------------------------------------------------
(* Renderers (lines 812-859; the copy at lines 344-415 differs in layout    *)
(* only).  A link is {label, key, url}, each a string.                      *)

\* escapeHtml: the five replacements, applied character by character
escapeChar(c) ==
    CASE c = "&"  -> "&amp;"
      [] c = "<"  -> "&lt;"
      [] c = ">"  -> "&gt;"
      [] c = "\"" -> "&quot;"
      [] c = "'"  -> "&#039;"
      [] OTHER    -> c

escapeHtml(s) == [i \in 1..Len(s) |-> escapeChar(s[i])]

AttachedSentence == "Files are attached to this email."
ExpiryNote == "If a link expires, resend from the app to generate a fresh one."

\* one <tr> block of renderEmailHtml's linkBlocks
linkBlock(l) ==
    LET name == escapeHtml(IF l.label # <<>> THEN l.label ELSE <<"Download">>)
        url  == escapeHtml(l.url)
        file == escapeHtml(filenameFromKey(l.key))
    IN <<"\n", "<tr>", "\n", "<td style=\"padding:8px 0;\">", "\n", "<div style=\"...\"><strong>">>
       \o name \o <<"</strong> (em dash) ">> \o file \o <<"</div>", "\n", "<a href=\"">>
       \o url \o <<"\" style=\"...\" target=\"_blank\" rel=\"noopener\">Download</a>",
                   "\n", "</td>", "\n", "</tr>">>

RECURSIVE linkBlocks(_)
linkBlocks(ls) == IF ls = <<>> THEN <<>> ELSE linkBlock(Head(ls)) \o linkBlocks(Tail(ls))

renderEmailHtml(in) ==
    LET footer == IF in.hasAttachments
                  THEN <<"<p style=\"...14px...\">", AttachedSentence, "</p>">>
                  ELSE <<"<p style=\"...12px...\">", ExpiryNote, "</p>">>
        table == IF Len(in.links) # 0
                 THEN <<"<table role=\"presentation\" width=\"100%\" style=\"margin-top:8px;\">">>
                      \o linkBlocks(in.links) \o <<"</table>">>
                 ELSE <<>>
    IN <<"<!doctype html>", "\n", "<html><head>...<title>Prime Dictation</title></head>", "\n",
         "<body style=\"...\">", "\n", "<table role=\"presentation\" ...>", "\n",
         "<tr><td align=\"center\" style=\"padding:24px;\">", "\n",
         "<table role=\"presentation\" width=\"100%\" style=\"...\">", "\n", "<tr><td>", "\n",
         "<h1 style=\"...\">Your Prime Dictation files are ready</h1>", "\n">>
       \o table \o <<"\n">> \o footer
       \o <<"\n", "</td></tr>", "\n", "</table>", "\n",
            "<div style=\"...\">(c) ", "YEAR", " Prime Dictation</div>", "\n",
            "</td></tr>", "\n", "</table>", "\n", "</body></html>">>

\* the `- ${l.label}: ${l.url}` lines of renderEmailText
RECURSIVE linkLines(_)
linkLines(ls) ==
    IF ls = <<>> THEN <<>>
    ELSE << <<"- ">> \o Head(ls).label \o <<": ">> \o Head(ls).url >> \o linkLines(Tail(ls))

renderEmailText(in) ==
    LET lines == << <<>> >> \o
                 (IF Len(in.links) # 0
                  THEN << <<"Downloads:">> >> \o linkLines(in.links)
                       \o << <<>>, <<ExpiryNote>> >>
                  ELSE IF in.hasAttachments
                       THEN << <<AttachedSentence>> >>
                       ELSE <<>>)
    IN Join(lines, <<"\n">>)

-----------------------------------------------------------------------------
(* MIME builder (lines 861-897)                                            *)

B64Alphabet ==
    <<"A","B","C","D","E","F","G","H","I","J","K","L","M","N","O","P","Q","R","S","T","U","V",
      "W","X","Y","Z","a","b","c","d","e","f","g","h","i","j","k","l","m","n","o","p","q","r",
      "s","t","u","v","w","x","y","z","0","1","2","3","4","5","6","7","8","9","+","/">>

RECURSIVE toBase64(_)
\* Buffer.prototype.toString("base64") of a sequence of bytes (0..255)
toBase64(d) ==
    IF Len(d) = 0 THEN <<>>
    ELSE IF Len(d) = 1
         THEN <<B64Alphabet[(d[1] \div 4) + 1], B64Alphabet[((d[1] % 4) * 16) + 1], "=", "=">>
    ELSE IF Len(d) = 2
         THEN <<B64Alphabet[(d[1] \div 4) + 1],
                B64Alphabet[((d[1] % 4) * 16 + (d[2] \div 16)) + 1],
                B64Alphabet[((d[2] % 16) * 4) + 1], "=">>
    ELSE <<B64Alphabet[(d[1] \div 4) + 1],
           B64Alphabet[((d[1] % 4) * 16 + (d[2] \div 16)) + 1],
           B64Alphabet[((d[2] % 16) * 4 + (d[3] \div 64)) + 1],
           B64Alphabet[(d[3] % 64) + 1]>>
         \o toBase64(SubSeq(d, 4, Len(d)))

ChunkLen == 76

RECURSIVE chunkList(_)
\* the `out` array of chunk76: slices of at most 76 characters
chunkList(str) ==
    IF Len(str) = 0 THEN <<>>
    ELSE IF Len(str) <= ChunkLen THEN <<str>>
    ELSE <<SubSeq(str, 1, ChunkLen)>> \o chunkList(SubSeq(str, ChunkLen + 1, Len(str)))

\* mutant: the encoding is written on one line
chunk76_OneLine(str) == str

chunk76(str) == Join(chunkList(str), <<"\r\n">>)

\* mutant: the filename is written as it is
safeName_Raw(filename) == filename

\* att.filename.replace(/"/g, "'")
safeName(filename) == [i \in 1..Len(filename) |-> IF filename[i] = "\"" THEN "'" ELSE filename[i]]

\* one attachment part of buildMimeMixed
mimePart(att, boundaryMixed) ==
    <<"--">> \o boundaryMixed \o <<"\r\n">>
    \o <<"Content-Type: ">> \o att.contentType \o <<"; name=\"">> \o safeName(att.filename)
    \o <<"\"", "\r\n">>
    \o <<"Content-Disposition: attachment; filename=\"">> \o safeName(att.filename)
    \o <<"\"", "\r\n">>
    \o <<"Content-Transfer-Encoding: base64", "\r\n", "\r\n">>
    \o chunk76(toBase64(att.data)) \o <<"\r\n">>

\* mutant: only the first attachment is written
mimeParts_FirstOnly(atts, boundaryMixed) ==
    IF atts = <<>> THEN <<>> ELSE mimePart(Head(atts), boundaryMixed)

RECURSIVE mimeParts(_, _)
mimeParts(atts, boundaryMixed) ==
    IF atts = <<>> THEN <<>>
    ELSE mimePart(Head(atts), boundaryMixed) \o mimeParts(Tail(atts), boundaryMixed)

\* buildMimeMixed; id1 and id2 are the two results of randomId()
buildMimeMixed(from, to, subject, text, html, attachments, id1, id2) ==
    LET boundaryMixed == <<"mixed_">> \o id1
        boundaryAlt   == <<"alt_">> \o id2
        headers == << <<"From: ">> \o from,
                      <<"To: ">> \o to,
                      <<"Subject: ">> \o subject,
                      <<"MIME-Version: 1.0">>,
                      <<"Content-Type: multipart/mixed; boundary=\"">> \o boundaryMixed \o <<"\"">> >>
        altSection ==
            <<"--">> \o boundaryMixed \o <<"\r\n">>
            \o <<"Content-Type: multipart/alternative; boundary=\"">> \o boundaryAlt
            \o <<"\"", "\r\n", "\r\n">>
            \o <<"--">> \o boundaryAlt
            \o <<"\r\n", "Content-Type: text/plain; charset=\"UTF-8\"", "\r\n",
                 "Content-Transfer-Encoding: 7bit", "\r\n", "\r\n">> \o text \o <<"\r\n">>
            \o <<"--">> \o boundaryAlt
            \o <<"\r\n", "Content-Type: text/html; charset=\"UTF-8\"", "\r\n",
                 "Content-Transfer-Encoding: 7bit", "\r\n", "\r\n">> \o html \o <<"\r\n">>
            \o <<"--">> \o boundaryAlt \o <<"--", "\r\n">>
        closing == <<"--">> \o boundaryMixed \o <<"--">>
    IN Join(headers, <<"\r\n">>) \o <<"\r\n", "\r\n">> \o altSection
       \o mimeParts(attachments, boundaryMixed) \o closing

-----------------------------------------------------------------------------
(* Collaborators and records                                               *)

\* what the metadata probe may report as ContentType (<<>>: omitted)
ContentTypePool == {<<>>, <<"audio/mpeg">>}

\* object contents the byte fetch may return
DataPool == {<<>>, <<72, 105>>}

\* results of randomId(): Math.random().toString(36).slice(2, 10), which may be short or empty
RandomIdPool == {<<"k","3">>, <<>>}

\* DOWNLOAD_URL_TTL_SECONDS as found in process.env: not set, a number of seconds,
\* text that is not a number, zero
TtlPool == {"unset", "3600", "abc", "0"}

\* the destructuring default (line 647): "86400" when the variable is not set
DOWNLOAD_URL_TTL_SECONDS(e) ==
    IF e.DOWNLOAD_URL_TTL_SECONDS = "unset" THEN "86400" ELSE e.DOWNLOAD_URL_TTL_SECONDS

\* parseInt(v, 10) on the settings above; 0 stands for NaN as well
parseInt(v) ==
    CASE v = "86400" -> 86400
      [] v = "3600"  -> 3600
      [] OTHER       -> 0

\* mutant: the setting is not read
expiresIn_Fixed(e) == 86400

\* parseInt(DOWNLOAD_URL_TTL_SECONDS, 10) || 86400
expiresIn(e) ==
    LET v == parseInt(DOWNLOAD_URL_TTL_SECONDS(e)) IN IF v = 0 THEN 86400 ELSE v

\* a collaborator call as logged: storage head / get / presign, e-mail send
Call(op, key) ==
    [op |-> op, key |-> key, expiresIn |-> 0, disposition |-> <<>>,
     contentType |-> <<>>, contentLength |-> 0]

\* getSignedUrl(GetObjectCommand{Key, ResponseContentDisposition, ...}, {expiresIn})
PresignGetCall(key, ttl, disposition) ==
    [op |-> "presign", key |-> key, expiresIn |-> ttl, disposition |-> disposition,
     contentType |-> <<"application/octet-stream">>, contentLength |-> 0]

\* the URL the presigner returns for a key: host, key, signed query string
presignedUrl(key) == <<"https://bucket.s3/">> \o key \o <<"?", "X-Amz-Expires", "&", "X-Amz-Signature">>

FROM_EMAIL == <<"no-reply", "@", "primedictation.com">>
\* line 692 (line 178 in the unauthenticated handler)
Subject(f) == IF f = "email" THEN <<"Prime Dictation">> ELSE <<"Your Prime Dictation files">>

NoResponse ==
    [kind |-> "none", statusCode |-> 0, error |-> "none", links |-> <<>>,
     toEmail |-> <<>>, key |-> <<>>]

\* resp(statusCode, {error})
RespError(code, name) ==
    [kind |-> "returned", statusCode |-> code, error |-> name, links |-> <<>>,
     toEmail |-> <<>>, key |-> <<>>]

\* resp(200, {messageId, toEmail, links, uid})
RespOk(to, ls) ==
    [kind |-> "returned", statusCode |-> 200, error |-> "none", links |-> ls,
     toEmail |-> to, key |-> <<>>]

\* `return` without a value
RespUndefined ==
    [kind |-> "undefined", statusCode |-> 0, error |-> "none", links |-> <<>>,
     toEmail |-> <<>>, key |-> <<>>]

\* the catch block of the authenticated handlers: err.statusCode || 500
catchResp(err) ==
    RespError(IF err.statusCode # NoStatus THEN err.statusCode ELSE 500, err.name)

\* errorOut of the unauthenticated handler: always 500
errorOut(err) == RespError(500, err.name)

\* the catch block of whichever handler is running
Caught(f, err) == IF f = "email_v2" THEN errorOut(err) ELSE catchResp(err)

NoSend == [kind |-> "none", to |-> <<>>, text |-> <<>>, html |-> <<>>, raw |-> <<>>,
           attachments |-> <<>>]

NoPayload ==
    [st |-> "unread", toEmail |-> JsUndef, recordingKey |-> NoKey, transcriptionKey |-> NoKey,
     key |-> JsUndef, contentType |-> JsUndef, contentLength |-> 0]

\* request bodies of the e-mail handlers
EmailBodies ==
    {[NoPayload EXCEPT !.st = "syntaxError"]} \cup
    {[NoPayload EXCEPT !.st = "ok", !.toEmail = t, !.recordingKey = r, !.transcriptionKey = x] :
        t \in ToEmailPool, r \in RecordingKeyPool, x \in TranscriptionKeyPool}

NewCb == [st |-> "new", err |-> NoErr, size |-> 0, contentType |-> <<>>]
NewLink == [st |-> "awaiting", url |-> <<>>]

\* the items array built from the payload (lines 680-682)
gatherItems(p) ==
    (IF p.recordingKey # NoKey THEN <<[key |-> p.recordingKey, label |-> "Recording"]>> ELSE <<>>)
    \o (IF p.transcriptionKey # NoKey
        THEN <<[key |-> p.transcriptionKey, label |-> "Transcription"]>> ELSE <<>>)

\* the meta array once every callback has returned
metaOf(its, c) ==
    [i \in 1..Len(its) |->
        [key |-> its[i].key, label |-> its[i].label, size |-> c[i].size,
         contentType |-> c[i].contentType]]

Rejected(c) == {i \in 1..Len(c) : c[i].st \in {"invalid", "failed"}}
\* mutant: one successful probe is enough
AllOk_Any(c) == \E i \in 1..Len(c) : c[i].st = "ok"

AllOk(c) == \A i \in 1..Len(c) : c[i].st = "ok"

-----------------------------------------------------------------------------
(* Initial states                                                          *)

Handlers == {"email", "email_v2", "presign"}

EnvPool ==
    [REQUIRE_UID_PREFIX : BOOLEAN, FIREBASE_PROJECT_ID : BOOLEAN,
     ATTACHMENT_MAX_MB : AttachMaxPool, DOWNLOAD_URL_TTL_SECONDS : TtlPool]

IdleRender == [links |-> <<>>, hasAttachments |-> FALSE]
NoRender == [html |-> <<>>, text |-> <<>>, did |-> {}]

HandlerIdle ==
    /\ pc = "start"
    /\ user = <<>>
    /\ payload = NoPayload
    /\ toEmail = <<>>
    /\ items = <<>>
    /\ cb = <<>>
    /\ mode = "none"
    /\ fetchIdx = 0
    /\ parts = <<>>
    /\ links = <<>>
    /\ calls = <<>>
    /\ sent = NoSend
    /\ response = NoResponse

Init ==
    /\ fn \in Handlers
    /\ env \in EnvPool
    /\ event \in [preflight : BOOLEAN, authz : AuthHeaderPool]
    \* settings and event parts a handler never reads are held at one value
    /\ fn = "email_v2" => /\ ~env.REQUIRE_UID_PREFIX
                          /\ env.FIREBASE_PROJECT_ID
                          /\ event = [preflight |-> FALSE, authz |-> NoHeader]
    /\ fn = "presign" => /\ env.FIREBASE_PROJECT_ID
                         /\ env.ATTACHMENT_MAX_MB = "9"
                         /\ env.DOWNLOAD_URL_TTL_SECONDS = "unset"
    /\ event.preflight => event.authz = NoHeader
    /\ HandlerIdle
    /\ rIn = IdleRender
    /\ rOut = NoRender

-----------------------------------------------------------------------------
(* pd-email-sender, authenticated handler (lines 667-773)                  *)

\* lines 669-671: CORS preflight (also pd-presign-upload lines 63-65)
Preflight ==
    /\ pc = "start"
    /\ fn \in {"email", "presign"}
    /\ event.preflight
    /\ response' = [NoResponse EXCEPT !.kind = "returned", !.statusCode = 204]
    /\ pc' = "done"
    /\ UNCHANGED <<fn, env, event, user, payload, toEmail, items, cb, mode, fetchIdx,
                   parts, links, calls, sent, rIn, rOut>>

\* line 674: await verifyFirebase(event); a throw goes to the catch block
Verify ==
    /\ pc = "start"
    /\ fn = "email"
    /\ ~event.preflight
    /\ LET v == verifyFirebase(env, event.authz) IN
       IF v.err # NoErr
       THEN /\ response' = catchResp(v.err)
            /\ pc' = "done"
            /\ user' = user
       ELSE /\ user' = v.uid
            /\ pc' = "parse"
            /\ response' = response
    /\ UNCHANGED <<fn, env, event, payload, toEmail, items, cb, mode, fetchIdx,
                   parts, links, calls, sent, rIn, rOut>>

\* lines 676-682: parse the body, require toEmail, gather the items
Parse ==
    /\ pc = "parse"
    /\ fn = "email"
    /\ \E body \in EmailBodies :
        /\ payload' = body
        /\ IF body.st = "syntaxError"
           THEN \* JSON.parse throws a SyntaxError
                /\ response' = catchResp(Err("SyntaxError", NoStatus))
                /\ pc' = "done"
                /\ UNCHANGED <<toEmail, items, cb>>
           ELSE IF truthy(body.toEmail) /\ body.toEmail.t # "string"
           THEN \* (payload.toEmail || "").trim is not a function
                /\ response' = catchResp(Err("TypeError", NoStatus))
                /\ pc' = "done"
                /\ UNCHANGED <<toEmail, items, cb>>
           ELSE LET raw == IF truthy(body.toEmail) THEN body.toEmail.s ELSE <<>>
                    to  == trim(raw)
                IN IF to = <<>>
                   THEN /\ response' = RespError(400, "Missing toEmail")
                        /\ pc' = "done"
                        /\ UNCHANGED <<toEmail, items, cb>>
                   ELSE /\ toEmail' = to
                        /\ items' = gatherItems(body)
                        /\ cb' = [i \in 1..Len(gatherItems(body)) |-> NewCb]
                        /\ pc' = IF gatherItems(body) = <<>> THEN "awaitMeta" ELSE "map"
                        /\ response' = response
    /\ UNCHANGED <<fn, env, event, user, mode, fetchIdx, parts, links, calls, sent, rIn, rOut>>

\* lines 684-686 (188-190): the synchronous part of the async callback that items.map
\* runs for the next item: validate the key, then issue the metadata probe.  A throw
\* rejects this callback's promise only; map goes on to the next item.
MapCallback ==
    /\ pc = "map"
    /\ fn \in {"email", "email_v2"}
    /\ LET i == CHOOSE j \in 1..Len(cb) : cb[j].st = "new" /\ \A k \in 1..(j-1) : cb[k].st # "new"
           err == IF fn = "email" THEN validateKeyPrefix(items[i].key, user, env)
                  ELSE validateKeyPrefixV2(items[i].key)
       IN /\ IF err # NoErr
             THEN /\ cb' = [cb EXCEPT ![i] = [@ EXCEPT !.st = "invalid", !.err = err]]
                  /\ calls' = calls
             ELSE /\ cb' = [cb EXCEPT ![i] = [@ EXCEPT !.st = "awaiting"]]
                  /\ calls' = Append(calls, Call("head", items[i].key))
          /\ pc' = IF i = Len(cb) THEN "awaitMeta" ELSE "map"
    /\ UNCHANGED <<fn, env, event, user, payload, toEmail, items, mode, fetchIdx,
                   parts, links, sent, response, rIn, rOut>>

\* lines 686-689 (190-193): a metadata probe completes and its callback returns or throws.
\* While the handler awaits Promise.all a rejection is handled before any further
\* completion; after the handler has returned, a late completion changes nothing else.
HeadDone(i) ==
    /\ i \in 1..Len(cb)
    /\ cb[i].st = "awaiting"
    /\ \/ pc = "awaitMeta" /\ Rejected(cb) = {}
       \/ pc = "done"
    /\ \/ \E size \in SizePool, ct \in ContentTypePool :
            cb' = [cb EXCEPT ![i] =
                     [st |-> "ok", err |-> NoErr, size |-> size,
                      contentType |-> resolveContentType(ct, items[i].key)]]
       \/ \* the SDK's NotFound exception carries $metadata.httpStatusCode, no statusCode
          cb' = [cb EXCEPT ![i] = [@ EXCEPT !.st = "failed", !.err = Err("NotFound", NoStatus)]]
    /\ UNCHANGED <<fn, env, event, pc, user, payload, toEmail, items, mode, fetchIdx,
                   parts, links, calls, sent, response, rIn, rOut>>

\* the rejection Promise.all settles with: the first callback to have rejected
firstRejection(c) ==
    LET inv == {i \in 1..Len(c) : c[i].st = "invalid"}
        i == IF inv # {} THEN CHOOSE j \in inv : \A k \in inv : j <= k
             ELSE CHOOSE j \in Rejected(c) : TRUE
    IN c[i].err

\* lines 684/768-772 (188/291-294): Promise.all rejected, the catch block answers
MetaReject ==
    /\ pc = "awaitMeta"
    /\ Rejected(cb) # {}
    /\ response' = Caught(fn, firstRejection(cb))
    /\ pc' = "done"
    /\ UNCHANGED <<fn, env, event, user, payload, toEmail, items, cb, mode, fetchIdx,
                   parts, links, calls, sent, rIn, rOut>>

\* the presign calls issued by meta.map in Links mode (lines 724-740)
presignCalls(f, metaList, e) ==
    [i \in 1..Len(metaList) |->
        IF f = "email"
        THEN PresignGetCall(metaList[i].key, expiresIn(e),
                 <<"attachment; filename=\"">> \o filenameFromKey(metaList[i].key) \o <<"\"">>)
        ELSE [Call("presign", metaList[i].key) EXCEPT !.expiresIn = expiresIn(e)]]

\* what the handler does once the mode is known, up to its next await:
\* Attachments: issue the first byte fetch (lines 705-708);
\* Links: issue one presign per asset (lines 723-744)
StartDelivery(want) ==
    LET meta == metaOf(items, cb) IN
    IF want
    THEN /\ mode' = "Attachments"
         /\ fetchIdx' = 1
         /\ calls' = Append(calls, Call("get", meta[1].key))
         /\ pc' = "fetch"
         /\ links' = links
    ELSE /\ mode' = "Links"
         /\ links' = [i \in 1..Len(meta) |-> NewLink]
         /\ calls' = calls \o presignCalls(fn, meta, env)
         /\ pc' = "awaitLinks"
         /\ fetchIdx' = fetchIdx

\* lines 692-708 / 723-744: every probe succeeded; decide attach vs. link
Decide ==
    /\ pc = "awaitMeta"
    /\ fn = "email"
    /\ AllOk(cb)
    /\ StartDelivery(wantAttachments(metaOf(items, cb), env))
    /\ UNCHANGED <<fn, env, event, user, payload, toEmail, items, cb,
                   parts, sent, response, rIn, rOut>>

\* lines 711-721 and 765: render, build the raw message, hand it to the e-mail sink
SendRaw(allParts) ==
    \E id1 \in RandomIdPool, id2 \in RandomIdPool :
        LET html == renderEmailHtml([links |-> <<>>, hasAttachments |-> TRUE])
            text == renderEmailText([links |-> <<>>, hasAttachments |-> TRUE])
            raw  == buildMimeMixed(FROM_EMAIL, toEmail, Subject(fn), text, html, allParts, id1, id2)
        IN /\ sent' = [kind |-> "raw", to |-> toEmail, text |-> text, html |-> html,
                       raw |-> raw, attachments |-> allParts]
           /\ calls' = Append(calls, Call("sendRaw", <<>>))
           /\ pc' = "awaitSend"

\* lines 707-710 / 800-804: the byte fetch of the current item completes; the loop goes on
\* to the next item, or the message is built and sent
GetDone ==
    /\ pc = "fetch"
    /\ \/ \E data \in DataPool :
            LET m == metaOf(items, cb)[fetchIdx]
                allParts == Append(parts, [filename |-> filenameFromKey(m.key),
                                           contentType |-> m.contentType, data |-> data])
            IN /\ parts' = allParts
               /\ IF fetchIdx < Len(items)
                  THEN /\ fetchIdx' = fetchIdx + 1
                       /\ calls' = Append(calls, Call("get", items[fetchIdx + 1].key))
                       /\ pc' = "fetch"
                       /\ sent' = sent
                  ELSE /\ SendRaw(allParts)
                       /\ fetchIdx' = fetchIdx
               /\ response' = response
       \/ /\ response' = Caught(fn, Err("GetObjectFailed", NoStatus))
          /\ pc' = "done"
          /\ UNCHANGED <<parts, fetchIdx, calls, sent>>
    /\ UNCHANGED <<fn, env, event, user, payload, toEmail, items, cb, mode, links, rIn, rOut>>

LinkFailed(ls) == {i \in 1..Len(ls) : ls[i].st = "failed"}

\* lines 728-742: a presign call completes and its callback returns {label, key, url}
PresignDone(i) ==
    /\ i \in 1..Len(links)
    /\ links[i].st = "awaiting"
    /\ \/ pc = "awaitLinks" /\ LinkFailed(links) = {}
       \/ pc = "done"
    /\ \/ links' = [links EXCEPT ![i] = [st |-> "ok", url |-> presignedUrl(items[i].key)]]
       \/ links' = [links EXCEPT ![i] = [@ EXCEPT !.st = "failed"]]
    /\ UNCHANGED <<fn, env, event, pc, user, payload, toEmail, items, cb, mode, fetchIdx,
                   parts, calls, sent, response, rIn, rOut>>

\* responseLinks: {label, key, url} per asset, in the order of the assets
responseLinks(its, ls) ==
    [i \in 1..Len(its) |->
        [label |-> <<its[i].label>>, key |-> its[i].key, url |-> ls[i].url]]

\* lines 745-765: every link issued; render and hand the simple message to the e-mail sink
LinksJoin ==
    /\ pc = "awaitLinks"
    /\ \A i \in 1..Len(links) : links[i].st = "ok"
    /\ LET in == [links |-> responseLinks(items, links), hasAttachments |-> FALSE]
       IN sent' = [kind |-> "simple", to |-> toEmail, text |-> renderEmailText(in),
                   html |-> renderEmailHtml(in), raw |-> <<>>, attachments |-> <<>>]
    /\ calls' = Append(calls, Call("send", <<>>))
    /\ pc' = "awaitSend"
    /\ UNCHANGED <<fn, env, event, user, payload, toEmail, items, cb, mode, fetchIdx,
                   parts, links, response, rIn, rOut>>

\* lines 724/768-772: Promise.all of the presign callbacks rejected
LinksReject ==
    /\ pc = "awaitLinks"
    /\ LinkFailed(links) # {}
    /\ response' = Caught(fn, Err("PresignFailed", NoStatus))
    /\ pc' = "done"
    /\ UNCHANGED <<fn, env, event, user, payload, toEmail, items, cb, mode, fetchIdx,
                   parts, links, calls, sent, rIn, rOut>>

\* lines 765-766: the e-mail sink answers; it rejects a message without a recipient
SendDone ==
    /\ pc = "awaitSend"
    /\ \/ /\ trim(sent.to) # <<>>
          /\ response' = RespOk(toEmail,
                 IF mode = "Links" THEN responseLinks(items, links) ELSE <<>>)
       \/ response' = Caught(fn, Err("SesError", NoStatus))
    /\ pc' = "done"
    /\ UNCHANGED <<fn, env, event, user, payload, toEmail, items, cb, mode, fetchIdx,
                   parts, links, calls, sent, rIn, rOut>>

-----------------------------------------------------------------------------
(* pd-email-sender, attach-vs-link handler without authentication          *)
(* (lines 174-295)                                                         *)

\* lines 176-185: parse the body (a missing body makes JSON.parse throw), copy toEmail
\* unchecked, gather the items
V2Parse ==
    /\ pc = "start"
    /\ fn = "email_v2"
    /\ \E body \in EmailBodies :
        /\ payload' = body
        /\ IF body.st = "syntaxError"
           THEN /\ response' = errorOut(Err("SyntaxError", NoStatus))
                /\ pc' = "done"
                /\ UNCHANGED <<toEmail, items, cb>>
           ELSE /\ toEmail' = IF body.toEmail.t = "string" THEN body.toEmail.s ELSE <<>>
                /\ items' = gatherItems(body)
                /\ cb' = [i \in 1..Len(gatherItems(body)) |-> NewCb]
                /\ pc' = IF gatherItems(body) = <<>> THEN "awaitMeta" ELSE "map"
                /\ response' = response
    /\ UNCHANGED <<fn, env, event, user, mode, fetchIdx, parts, links, calls, sent, rIn, rOut>>

\* lines 200-259: without a recording the handler returns nothing; otherwise it decides
V2Decide ==
    /\ pc = "awaitMeta"
    /\ fn = "email_v2"
    /\ AllOk(cb)
    /\ IF ~metaFind(metaOf(items, cb), "Recording").found
       THEN /\ response' = RespUndefined
            /\ pc' = "done"
            /\ UNCHANGED <<mode, fetchIdx, links, calls>>
       ELSE /\ StartDelivery(wantAttachmentsV2(metaOf(items, cb), env))
            /\ response' = response
    /\ UNCHANGED <<fn, env, event, user, payload, toEmail, items, cb, parts, sent, rIn, rOut>>

-----------------------------------------------------------------------------
(* pd-presign-upload handler (lines 61-125)                                *)

\* ALLOWED_PREFIXES default "recordings/,transcriptions/", split and trimmed
allowedPrefixes == {RECORDINGS_PREFIX, TRANSCRIPTIONS_PREFIX}

\* MAX_BYTES default
maxBytes == 15728640

allowedContentTypes == {<<"audio/mp4">>, <<"audio/mpeg">>, <<"audio/wav">>, <<"text/plain">>}

PresignKeyPool ==
    {JsUndef, JsNum(5), JsStr(<<" ">>), JsStr(KeyRecA), JsStr(<<" ">> \o KeyTrT \o <<" ">>),
     JsStr(KeySecret), JsStr(KeyU1A), JsStr(KeyU10A)}
PresignTypePool == {JsUndef, JsStr(<<"audio/mp4">>), JsStr(<<"text/plain">>), JsStr(<<"image/png">>)}
PresignLengthPool == {0 - 1, 0, 1, maxBytes, maxBytes + 1}

PresignBodies ==
    {[NoPayload EXCEPT !.st = "ok", !.key = k, !.contentType = t, !.contentLength = n] :
        k \in PresignKeyPool, t \in PresignTypePool, n \in PresignLengthPool}

\* reqString: the trimmed string, or a plain Error for a non-string or blank value
reqStringOk(v) == v.t = "string" /\ trim(v.s) # <<>>

\* lines 75-87: the tenancy / prefix guard; the status of the rejection, or 0 when it passes
presignKeyGuard(key, uid, e) ==
    IF e.REQUIRE_UID_PREFIX
    THEN IF ~startsWith(key, UsersSlash \o uid \o <<"/">>) THEN 403 ELSE 0
    ELSE IF ~(\E p \in allowedPrefixes : startsWith(key, p)) THEN 400 ELSE 0

\* line 69: await verifyFirebase(event)
PresignVerify ==
    /\ pc = "start"
    /\ fn = "presign"
    /\ ~event.preflight
    /\ LET v == presignVerifyFirebase(event.authz) IN
       IF v.err # NoErr
       THEN /\ response' = catchResp(v.err)
            /\ pc' = "done"
            /\ user' = user
       ELSE /\ user' = v.uid
            /\ pc' = "parse"
            /\ response' = response
    /\ UNCHANGED <<fn, env, event, payload, toEmail, items, cb, mode, fetchIdx,
                   parts, links, calls, sent, rIn, rOut>>

\* lines 71-105: read the body, run every check, ask the presigner for the upload URL
PresignValidate ==
    /\ pc = "parse"
    /\ fn = "presign"
    /\ \E body \in PresignBodies :
        /\ payload' = body
        /\ IF ~reqStringOk(body.key) \/ ~reqStringOk(body.contentType)
           THEN /\ response' = catchResp(Err("Missing or invalid field", NoStatus))
                /\ pc' = "done"
                /\ calls' = calls
           ELSE LET key == trim(body.key.s)
                    contentType == trim(body.contentType.s)
                    contentLength == body.contentLength
                    guard == presignKeyGuard(key, user, env)
                IN IF guard # 0
                   THEN /\ response' = RespError(guard, "key must start with")
                        /\ pc' = "done"
                        /\ calls' = calls
                   ELSE IF contentType \notin allowedContentTypes
                   THEN /\ response' = RespError(400, "Unsupported contentType")
                        /\ pc' = "done"
                        /\ calls' = calls
                   ELSE IF contentLength = 0 \/ contentLength > maxBytes
                   THEN /\ response' = RespError(400, "contentLength missing or exceeds limit")
                        /\ pc' = "done"
                        /\ calls' = calls
                   ELSE /\ calls' = Append(calls,
                               [op |-> "presignPut", key |-> key, expiresIn |-> 60,
                                disposition |-> <<>>, contentType |-> contentType,
                                contentLength |-> contentLength])
                        /\ pc' = "awaitSign"
                        /\ response' = response
    /\ UNCHANGED <<fn, env, event, user, toEmail, items, cb, mode, fetchIdx,
                   parts, links, sent, rIn, rOut>>

\* lines 105-119: the presigner answers and the handler returns the URL, or the catch block runs
PresignSignDone ==
    /\ pc = "awaitSign"
    /\ \/ response' = [NoResponse EXCEPT !.kind = "returned", !.statusCode = 200,
                                         !.key = calls[Len(calls)].key]
       \/ response' = catchResp(Err("PresignFailed", NoStatus))
    /\ pc' = "done"
    /\ UNCHANGED <<fn, env, event, user, payload, toEmail, items, cb, mode, fetchIdx,
                   parts, links, calls, sent, rIn, rOut>>

-----------------------------------------------------------------------------
(* The handlers as one state machine                                       *)

Next ==
    \/ Preflight
    \/ Verify
    \/ Parse
    \/ MapCallback
    \/ \E i \in 1..2 : HeadDone(i)
    \/ MetaReject
    \/ Decide
    \/ GetDone
    \/ \E i \in 1..2 : PresignDone(i)
    \/ LinksJoin
    \/ LinksReject
    \/ SendDone
    \/ V2Parse
    \/ V2Decide
    \/ PresignVerify
    \/ PresignValidate
    \/ PresignSignDone

Spec == Init /\ [][Next]_vars

-----------------------------------------------------------------------------
(* The renderers as pure functions: inputs drawn from bounded sets         *)

MaxLinks == 2

\* links a caller may pass: the labels, keys and urls include markup characters
RenderLinkPool ==
    {[label |-> <<"Recording">>, key |-> KeyRecA, url |-> presignedUrl(KeyRecA)],
     [label |-> <<"Transcription">>, key |-> KeyTrT, url |-> presignedUrl(KeyTrT)],
     [label |-> <<>>, key |-> <<"n","o","s","l","a","s","h">>, url |-> <<"h",":","?","a","&","b">>],
     [label |-> <<"<","b",">">>, key |-> <<"d","/","a","\"","'",".","t","x","t">>,
      url |-> <<"h",":","<",">","\"","'">>]}

RECURSIVE SeqsUpTo(_, _)
\* all sequences over S of length at most n
SeqsUpTo(S, n) ==
    IF n = 0 THEN {<<>>}
    ELSE SeqsUpTo(S, n - 1) \cup {Append(q, x) : q \in {r \in SeqsUpTo(S, n - 1) : Len(r) = n - 1}, x \in S}

InitRender ==
    /\ fn = "email"
    /\ env = [REQUIRE_UID_PREFIX |-> FALSE, FIREBASE_PROJECT_ID |-> TRUE,
              ATTACHMENT_MAX_MB |-> "9", DOWNLOAD_URL_TTL_SECONDS |-> "unset"]
    /\ event = [preflight |-> FALSE, authz |-> NoHeader]
    /\ pc = "render"
    /\ user = <<>>
    /\ payload = NoPayload
    /\ toEmail = <<>>
    /\ items = <<>>
    /\ cb = <<>>
    /\ mode = "none"
    /\ fetchIdx = 0
    /\ parts = <<>>
    /\ links = <<>>
    /\ calls = <<>>
    /\ sent = NoSend
    /\ response = NoResponse
    /\ rIn \in [links : SeqsUpTo(RenderLinkPool, MaxLinks), hasAttachments : BOOLEAN]
    /\ rOut = NoRender

RenderHtml ==
    /\ pc = "render"
    /\ "html" \notin rOut.did
    /\ rOut' = [rOut EXCEPT !.html = renderEmailHtml(rIn), !.did = @ \cup {"html"}]
    /\ UNCHANGED <<fn, env, event, pc, user, payload, toEmail, items, cb, mode, fetchIdx,
                   parts, links, calls, sent, response, rIn>>

RenderText ==
    /\ pc = "render"
    /\ "text" \notin rOut.did
    /\ rOut' = [rOut EXCEPT !.text = renderEmailText(rIn), !.did = @ \cup {"text"}]
    /\ UNCHANGED <<fn, env, event, pc, user, payload, toEmail, items, cb, mode, fetchIdx,
                   parts, links, calls, sent, response, rIn>>

NextRender ==
    \/ RenderHtml
    \/ RenderText

SpecRender == InitRender /\ [][NextRender]_vars

-----------------------------------------------------------------------------
(* Claims                                                                  *)

StorageOps == {"head", "get", "presign"}
SendOps == {"send", "sendRaw"}
CallsOf(ops) == {i \in 1..Len(calls) : calls[i].op \in ops}

\* the number of tokens of s equal to t
Count(s, t) == Cardinality({i \in 1..Len(s) : s[i] = t})

\* C1: in the authenticated e-mail handler the mode is Attachments iff a Recording asset
\* is present, the sum of all asset sizes is <= the attachment limit, and the sum of
\* ceil(size/3)*4 over all assets plus 48 KiB is < 10 MiB; otherwise it is Links; and
\* a mode is selected as soon as every asset is resolved.
C1_Encoded(n) == IF n % 3 = 0 THEN (n \div 3) * 4 ELSE ((n \div 3) + 1) * 4
C1_RawTotal == IF Len(cb) = 0 THEN 0 ELSE IF Len(cb) = 1 THEN cb[1].size ELSE cb[1].size + cb[2].size
C1_EncodedTotal ==
    IF Len(cb) = 0 THEN 0
    ELSE IF Len(cb) = 1 THEN C1_Encoded(cb[1].size)
    ELSE C1_Encoded(cb[1].size) + C1_Encoded(cb[2].size)
C1_Limit == (IF env.ATTACHMENT_MAX_MB = "1" THEN 1 ELSE 9) * 1024 * 1024
C1_ShouldAttach ==
    /\ \E i \in 1..Len(items) : items[i].label = "Recording"
    /\ C1_RawTotal <= C1_Limit
    /\ C1_EncodedTotal + 48 * 1024 < 10 * 1024 * 1024
C1_ModeDecision ==
    fn = "email" =>
        /\ mode \in {"none", "Attachments", "Links"}
        /\ pc \in {"fetch", "awaitLinks", "awaitSend"} => mode # "none"
        /\ mode # "none" => (mode = "Attachments" <=> C1_ShouldAttach)

\* C1 witness: two assets whose combined size is exactly the 1 MiB limit are attached
C1_Witness ==
    /\ fn = "email"
    /\ mode = "Attachments"
    /\ Len(items) = 2
    /\ env.ATTACHMENT_MAX_MB = "1"
    /\ C1_RawTotal = 1024 * 1024

\* C2: no storage call is issued until every supplied key has passed the tenancy/prefix
\* rule; when a supplied key violates the rule no storage call is made at all.
C2_ValidateBeforeFetch ==
    fn = "email" =>
        (CallsOf(StorageOps) # {} => \A i \in 1..Len(cb) : cb[i].st \notin {"new", "invalid"})

\* a stage of the request has failed: authentication or the body check answered with an
\* error, a key was rejected, a probe, a byte fetch or a link issuance failed
C3_StageFailed ==
    \/ \E i \in 1..Len(cb) : cb[i].st \in {"invalid", "failed"}
    \/ LinkFailed(links) # {}
    \/ response.kind = "returned" /\ response.statusCode >= 400

C3_SendOnlyAfterSuccess ==
    CallsOf(SendOps) # {} =>
        /\ Cardinality(CallsOf(SendOps)) = 1
        /\ user = Uid1
        /\ AllOk(cb)
        /\ mode = "Attachments" => /\ Len(parts) = Len(items)
                                   /\ CallsOf({"presign"}) = {}
        /\ mode = "Links" => \A i \in 1..Len(links) : links[i].st = "ok"
        /\ mode # "none"

\* C3: the e-mail sink is called at most once and only after authentication, key
\* validation, metadata resolution and all byte fetches (Attachments) or all link
\* issuances (Links) succeeded; once a stage has failed no e-mail is sent and no later
\* stage is started (no further collaborator call is issued).
C3_NoPartialSends ==
    [][fn = "email" =>
        /\ C3_SendOnlyAfterSuccess'
        /\ C3_StageFailed => calls' = calls]_vars

\* C4: in every successful request either (Attachments) the raw message carries exactly
\* one attachment part per supplied asset, no presigned URL is issued and the response's
\* links are empty, or (Links) no bytes are fetched, nothing is attached and the response
\* has exactly one link per supplied asset.
C4_AttachmentHeader == "Content-Disposition: attachment; filename=\""
C4_AllOrNothing ==
    (fn \in {"email", "email_v2"} /\ response.statusCode = 200) =>
        \/ /\ mode = "Attachments"
           /\ sent.kind = "raw"
           /\ Count(sent.raw, C4_AttachmentHeader) = Len(items)
           /\ Cardinality(CallsOf({"get"})) = Len(items)
           /\ CallsOf({"presign"}) = {}
           /\ response.links = <<>>
        \/ /\ mode = "Links"
           /\ sent.kind = "simple"
           /\ CallsOf({"get"}) = {}
           /\ parts = <<>>
           /\ sent.raw = <<>>
           /\ Cardinality(CallsOf({"presign"})) = Len(items)
           /\ Len(response.links) = Len(items)
           /\ \A i \in 1..Len(items) : response.links[i].key = items[i].key

\* C4 witness: a successful request that attached both assets
C4_Witness ==
    /\ fn = "email"
    /\ response.statusCode = 200
    /\ mode = "Attachments"
    /\ Len(items) = 2

\* C5: in both handlers that decide attach-vs-link, a request without a recordingKey
\* never selects Attachments and, when no collaborator fails, issues one link per
\* supplied asset, sends the link e-mail and returns a success response.
C5_NoRecordingFallsBackToLinks ==
    (fn \in {"email", "email_v2"} /\ payload.st = "ok" /\ payload.recordingKey = NoKey) =>
        /\ mode # "Attachments"
        /\ (/\ pc = "done"
            /\ trim(toEmail) # <<>>
            /\ AllOk(cb)
            /\ response.error \notin {"SesError", "PresignFailed"})
           => /\ response.statusCode = 200
              /\ mode = "Links"
              /\ sent.kind = "simple"
              /\ Len(response.links) = Len(items)

\* C6: a key is accepted iff it starts with users/<subject>/ (tenancy enforcement on;
\* otherwise rejected with 403) or with one of the allowed prefixes (enforcement off;
\* otherwise rejected with 400), and that status is the status of the error response.
C6_HasPrefix(s, p) == Len(s) >= Len(p) /\ \A i \in 1..Len(p) : s[i] = p[i]
C6_Passes(key) ==
    IF env.REQUIRE_UID_PREFIX
    THEN C6_HasPrefix(key, <<"u","s","e","r","s","/","u","1","/">>)
    ELSE \/ C6_HasPrefix(key, <<"r","e","c","o","r","d","i","n","g","s","/">>)
         \/ C6_HasPrefix(key, <<"t","r","a","n","s","c","r","i","p","t","i","o","n","s","/">>)
C6_Status == IF env.REQUIRE_UID_PREFIX THEN 403 ELSE 400
C6_KeyValidation ==
    /\ fn = "email" =>
        /\ \A i \in 1..Len(cb) :
              cb[i].st # "new" =>
                /\ cb[i].st = "invalid" <=> ~C6_Passes(items[i].key)
                /\ cb[i].st = "invalid" =>
                     /\ cb[i].err.statusCode = C6_Status
                     /\ cb[i].err.name = IF env.REQUIRE_UID_PREFIX THEN "Forbidden" ELSE "InvalidKey"
        /\ (pc = "done" /\ \E i \in 1..Len(cb) : cb[i].st = "invalid")
              => response.statusCode = C6_Status
    /\ (fn = "presign" /\ payload.st = "ok" /\ reqStringOk(payload.key)
           /\ reqStringOk(payload.contentType)) =>
        /\ response.error = "key must start with" <=> ~C6_Passes(trim(payload.key.s))
        /\ ~C6_Passes(trim(payload.key.s)) => response.statusCode = C6_Status
        /\ calls # <<>> => C6_Passes(calls[1].key)

\* C6 witness: under tenancy enforcement the key of another user whose id merely begins
\* with the caller's id was rejected and the caller got 403
C6_Witness ==
    /\ fn = "email"
    /\ env.REQUIRE_UID_PREFIX
    /\ pc = "done"
    /\ response.statusCode = 403
    /\ \E i \in 1..Len(items) : items[i].key = KeyU10A /\ cb[i].st = "invalid"

C7_BadCredential == event.authz.scheme \in {"none", "basic"} \/ event.authz.tok # "good"
C7_NothingStarted == payload = NoPayload /\ calls = <<>> /\ sent = NoSend

\* C7 (as claimed): for every non-preflight request to the authenticated e-mail handler
\* with a missing, malformed or rejected credential the response has status 401 and no
\* body parsing, storage call or e-mail send takes place.
C7_Unauthorized401 ==
    (fn = "email" /\ ~event.preflight /\ C7_BadCredential) =>
        /\ pc \in {"start", "done"}
        /\ pc = "done" => response.statusCode = 401
        /\ C7_NothingStarted

\* C7 (amended): when FIREBASE_PROJECT_ID is configured, a missing, malformed or rejected
\* credential is answered 401 with no body parsing, storage call or send; when it is not
\* configured every non-preflight request is answered 500, again with nothing started;
\* the body is never read before verification has succeeded.
C7_Unauthorized401WhenConfigured ==
    (fn = "email" /\ ~event.preflight) =>
        /\ (env.FIREBASE_PROJECT_ID /\ C7_BadCredential) =>
              /\ pc \in {"start", "done"}
              /\ pc = "done" => response.statusCode = 401
              /\ C7_NothingStarted
        /\ ~env.FIREBASE_PROJECT_ID =>
              /\ pc \in {"start", "done"}
              /\ pc = "done" => response.statusCode = 500
              /\ C7_NothingStarted
        /\ ~C7_NothingStarted => user = Uid1 /\ ~C7_BadCredential

\* C7 witness: a rejected bearer token was answered 401
C7_Witness ==
    /\ fn = "email"
    /\ env.FIREBASE_PROJECT_ID
    /\ event.authz = [scheme |-> "bearer", tok |-> "bad"]
    /\ pc = "done"
    /\ response.statusCode = 401

\* C8: when the metadata probe reports that a key does not exist the request fails and
\* the caller receives a 400- or 404-class status, not a 500-class one.
C8_NotFoundIs4xx ==
    (fn = "email" /\ pc = "done" /\ response.error = "NotFound"
        /\ \E i \in 1..Len(cb) : cb[i].st = "failed")
    => response.statusCode \in {400, 404}

C9_BadToEmail(v) == v.t # "string" \/ \A i \in 1..Len(v.s) : v.s[i] \in {" ", "\t", "\n", "\r"}

\* C9: an authenticated request whose toEmail is absent, blank or not a string is
\* rejected with status 400 before any storage call or e-mail send.
C9_MissingToEmail400 ==
    (fn = "email" /\ payload.st = "ok" /\ C9_BadToEmail(payload.toEmail)) =>
        /\ pc = "done"
        /\ response.statusCode = 400
        /\ calls = <<>>
        /\ sent = NoSend

C10_LinkListTokens == {"Downloads:", "- ", "<a href=\"", "<tr>"}
C10_Good(out) ==
    /\ Count(out, "Files are attached to this email.") = 1
    /\ Range(out) \cap C10_LinkListTokens = {}

\* C10: with hasAttachments true both renderers state that the files are attached and
\* render no link list, whatever links holds.
C10_AttachedBodyHasNoLinks ==
    rIn.hasAttachments =>
        /\ "html" \in rOut.did => C10_Good(rOut.html)
        /\ "text" \in rOut.did => C10_Good(rOut.text)

-----------------------------------------------------------------------------
(* Link-mode rendering                                                     *)

\* sub occurs in s at position i
IsAt(s, sub, i) ==
    /\ i >= 1
    /\ i + Len(sub) - 1 <= Len(s)
    /\ SubSeq(s, i, i + Len(sub) - 1) = sub

\* a, b and c occur in e one after the other, without overlapping
ShowsInOrder(e, a, b, c) ==
    \E i, j, k \in 1..(Len(e) + 1) :
        /\ IsAt(e, a, i) /\ i + Len(a) <= j
        /\ IsAt(e, b, j) /\ j + Len(b) <= k
        /\ IsAt(e, c, k)

RECURSIVE PositionsIn(_, _, _, _)
\* the positions in lo..hi at which token tok stands in out, ascending
PositionsIn(out, tok, lo, hi) ==
    IF lo > hi THEN <<>>
    ELSE IF lo = hi THEN (IF out[lo] = tok THEN <<lo>> ELSE <<>>)
    ELSE LET mid == (lo + hi) \div 2 IN
         PositionsIn(out, tok, lo, mid) \o PositionsIn(out, tok, mid + 1, hi)

\* the positions from i on at which token tok stands in out, ascending
Positions(out, tok, i) == PositionsIn(out, tok, i, Len(out))

\* the link rows of an html body: from each <tr> to its </tr>
C11_HtmlEntries(out) ==
    LET starts == Positions(out, "<tr>", 1)
        ends   == Positions(out, "</tr>", 1)
    IN IF Len(starts) # Len(ends) THEN << <<"malformed">> >>
       ELSE [n \in 1..Len(starts) |-> SubSeq(out, starts[n], ends[n])]

\* the link entries of a text body: from each "- " up to the next one (or the end)
C11_TextEntries(out) ==
    LET starts == Positions(out, "- ", 1)
    IN [n \in 1..Len(starts) |->
           SubSeq(out, starts[n], IF n < Len(starts) THEN starts[n + 1] - 1 ELSE Len(out))]

\* the expiry note stands after the last entry
C11_NoteFollows(out, firstTok) ==
    LET starts == Positions(out, firstTok, 1)
        notes  == Positions(out, ExpiryNote, 1)
    IN Len(notes) = 1 /\ (Len(starts) > 0 => notes[1] > starts[Len(starts)])

C11_HtmlLists(in, out) ==
    LET es == C11_HtmlEntries(out) IN
    /\ Len(es) = Len(in.links)
    /\ \A n \in 1..Len(es) :
           ShowsInOrder(es[n], escapeHtml(in.links[n].label),
                        escapeHtml(filenameFromKey(in.links[n].key)),
                        escapeHtml(in.links[n].url))
    /\ C11_NoteFollows(out, "<tr>")

C11_TextLists(in, out) ==
    LET es == C11_TextEntries(out) IN
    /\ Len(es) = Len(in.links)
    /\ \A n \in 1..Len(es) :
           ShowsInOrder(es[n], in.links[n].label, filenameFromKey(in.links[n].key),
                        in.links[n].url)
    /\ C11_NoteFollows(out, "- ")

\* C11: with hasAttachments false and a non-empty link list, both renderers list every
\* link exactly once, in input order, each entry showing label, filename and url, and
\* the expiry note follows the list.
C11_LinksListed ==
    (~rIn.hasAttachments /\ Len(rIn.links) > 0) =>
        /\ "html" \in rOut.did => C11_HtmlLists(rIn, rOut.html)
        /\ "text" \in rOut.did => C11_TextLists(rIn, rOut.text)

\* the five HTML metacharacters
C12_Meta == {"<", ">", "&", "\"", "'"}

\* out holds one of the five characters as a character of its own, that is, one that
\* came in with an interpolated value (the templates' own markup is in longer literals)
C12_Unescaped(out) == \E i \in 1..Len(out) : out[i] \in C12_Meta

\* C12: neither rendered body contains an unescaped < > & " ' that comes from an
\* interpolated label, filename or url.
C12_NoUnescapedMeta ==
    /\ "html" \in rOut.did => ~C12_Unescaped(rOut.html)
    /\ "text" \in rOut.did => ~C12_Unescaped(rOut.text)

-----------------------------------------------------------------------------
(* Scenario C and link issuance                                            *)

C16_SixMB == 6 * 1024 * 1024

\* Scenario C: default limit, a 6 MB recording and a 6 MB transcription, mode decided
C16_ScenarioC ==
    /\ fn = "email"
    /\ env.ATTACHMENT_MAX_MB = "9"
    /\ mode # "none"
    /\ Len(items) = 2
    /\ cb[1].size = C16_SixMB
    /\ cb[2].size = C16_SixMB

\* the encoded-size ceiling check, taken alone
C16_CeilingPasses == C1_EncodedTotal + 48 * 1024 < 10 * 1024 * 1024

\* C16 as stated: Scenario C yields Links because the combined raw size exceeds the
\* 9 MB limit, while the encoded-size ceiling check alone would pass.
C16_ScenarioCStated ==
    C16_ScenarioC => (mode = "Links" /\ C1_RawTotal > C1_Limit /\ C16_CeilingPasses)

\* C16 amended: Scenario C yields Links; the combined raw size exceeds the 9 MB limit
\* and the encoded-size ceiling check fails for this input as well.
C16_ScenarioCLinks ==
    C16_ScenarioC => (mode = "Links" /\ C1_RawTotal > C1_Limit /\ ~C16_CeilingPasses)

\* C16 witness: Scenario C has been decided and the links are being issued
C16_Witness == C16_ScenarioC /\ mode = "Links" /\ pc = "awaitLinks"

\* the presign calls in issue order
C17_Presigns == [n \in 1..Len(Positions([i \in 1..Len(calls) |-> calls[i].op], "presign", 1)) |->
                    calls[Positions([i \in 1..Len(calls) |-> calls[i].op], "presign", 1)[n]]]

\* the final path segment of a key: its longest suffix without a slash
C17_LastSegment(key) ==
    LET n == CHOOSE n \in 0..Len(key) :
                 /\ \A i \in (Len(key) - n + 1)..Len(key) : key[i] # "/"
                 /\ (n < Len(key) => key[Len(key) - n] = "/")
    IN SubSeq(key, Len(key) - n + 1, Len(key))

C17_Disposition(key) == <<"attachment; filename=\"">> \o C17_LastSegment(key) \o <<"\"">>

\* the expiry the claim as stated expects: the configured number, 86400 when the
\* setting is absent or not a number
C17_StatedExpiry ==
    CASE env.DOWNLOAD_URL_TTL_SECONDS = "3600" -> 3600
      [] env.DOWNLOAD_URL_TTL_SECONDS = "0"    -> 0
      [] OTHER                                 -> 86400

\* the expiry of the amended claim: 86400 also when the setting is zero
C17_AmendedExpiry == IF env.DOWNLOAD_URL_TTL_SECONDS = "3600" THEN 3600 ELSE 86400

C17_Issuance(expiry) ==
    fn = "email" =>
        /\ mode # "Links" => Len(C17_Presigns) = 0
        /\ mode = "Links" =>
              /\ Len(C17_Presigns) = Len(items)
              /\ \A i \in 1..Len(items) :
                    /\ C17_Presigns[i].key = items[i].key
                    /\ C17_Presigns[i].expiresIn = expiry
                    /\ C17_Presigns[i].disposition = C17_Disposition(items[i].key)
        /\ response.statusCode = 200 /\ mode = "Links" =>
              /\ Len(response.links) = Len(items)
              /\ \A i \in 1..Len(items) :
                    /\ response.links[i].label = <<items[i].label>>
                    /\ response.links[i].key = items[i].key
              /\ \A i, j \in 1..Len(items) :
                    (items[i].label = "Recording" /\ items[j].label = "Transcription") => i < j
        /\ (\E i \in 1..Len(links) : links[i].st = "failed") =>
              /\ sent = NoSend
              /\ response.statusCode # 200
              /\ response.links = <<>>
              /\ CallsOf(SendOps) = {}

\* C17 as stated: in Links mode one presigned URL is requested per asset, with the
\* configured expiry (86400 when absent or unparsable) and the attachment disposition;
\* the links come back in asset order with label and key; one failed issuance means no
\* links and no e-mail.
C17_LinkIssuanceStated == C17_Issuance(C17_StatedExpiry)

\* C17 amended: the same, the expiry being 86400 also when the setting parses to zero.
C17_LinkIssuance == C17_Issuance(C17_AmendedExpiry)

\* C17 witness: two links issued with a configured expiry of 3600 s and returned
C17_Witness ==
    /\ fn = "email" /\ mode = "Links" /\ response.statusCode = 200
    /\ Len(items) = 2 /\ env.DOWNLOAD_URL_TTL_SECONDS = "3600"

-----------------------------------------------------------------------------
(* Content-type resolution on its own (lines 688 and 791-799)              *)

\* key stems and endings the resolution is tried on
ResolveStemPool == {<<>>, <<"a">>, RECORDINGS_PREFIX \o <<"b">>}
ResolveEndingPool ==
    {<<>>, <<".","m","4","a">>, <<".","M","4","A">>, <<".","m","p","3">>, <<".","M","p","3">>,
     <<".","w","a","v">>, <<".","t","x","t">>, <<".","T","X","T">>, <<".","j","s","o","n">>,
     <<".","j","s","o">>, <<"m","4","a">>, <<".","m","4","a",".","b","a","k">>,
     <<".","w","a","v","/","c">>}
ResolveKeyPool == {st \o en : st \in ResolveStemPool, en \in ResolveEndingPool}

\* what storage may report: nothing, or a type of its own
ResolveTypePool == {<<>>, <<"audio/mpeg">>, <<"binary/octet-stream">>}

InitResolve ==
    /\ fn = "email"
    /\ env = [REQUIRE_UID_PREFIX |-> FALSE, FIREBASE_PROJECT_ID |-> TRUE,
              ATTACHMENT_MAX_MB |-> "9", DOWNLOAD_URL_TTL_SECONDS |-> "unset"]
    /\ event = [preflight |-> FALSE, authz |-> NoHeader]
    /\ HandlerIdle
    /\ rIn \in [key : ResolveKeyPool, contentType : ResolveTypePool]
    /\ rOut = [contentType |-> <<>>, did |-> FALSE]

\* line 688: const contentType = head.ContentType || inferContentType(key)
Resolve ==
    /\ ~rOut.did
    /\ rOut' = [contentType |-> resolveContentType(rIn.contentType, rIn.key), did |-> TRUE]
    /\ UNCHANGED <<fn, env, event, pc, user, payload, toEmail, items, cb, mode, fetchIdx,
                   parts, links, calls, sent, response, rIn>>

NextResolve == Resolve

SpecResolve == InitResolve /\ [][NextResolve]_vars

\* c is d, or the capital of the letter d
C18_Folds(c, d) == c = d \/ \E k \in 1..26 : UpperCase[k] = c /\ LowerCase[k] = d

\* key ends with the extension ext, letter case counting (exact) or not
C18_HasExt(key, ext, exact) ==
    /\ Len(key) >= Len(ext)
    /\ \A i \in 1..Len(ext) :
          LET c == key[Len(key) - Len(ext) + i] IN
          IF exact THEN c = ext[i] ELSE C18_Folds(c, ext[i])

\* the closed mapping; plain is the text/plain entry
C18_Mapping(key, exact, plain) ==
    IF C18_HasExt(key, <<".","m","4","a">>, exact) THEN <<"audio/mp4">>
    ELSE IF C18_HasExt(key, <<".","m","p","3">>, exact) THEN <<"audio/mpeg">>
    ELSE IF C18_HasExt(key, <<".","w","a","v">>, exact) THEN <<"audio/wav">>
    ELSE IF C18_HasExt(key, <<".","t","x","t">>, exact) THEN plain
    ELSE IF C18_HasExt(key, <<".","j","s","o","n">>, exact) THEN <<"application/json">>
    ELSE <<"application/octet-stream">>

C18_Resolved(exact, plain) ==
    rOut.did =>
        rOut.contentType = IF rIn.contentType # <<>> THEN rIn.contentType
                           ELSE C18_Mapping(rIn.key, exact, plain)

\* C18 as stated: the content type is the one storage returned when it returned one;
\* otherwise it is inferred from the key's extension by the mapping .m4a -> audio/mp4,
\* .mp3 -> audio/mpeg, .wav -> audio/wav, .txt -> text/plain;charset=UTF-8,
\* .json -> application/json, every other key -> application/octet-stream.
C18_ContentTypeStated == C18_Resolved(TRUE, <<"text/plain;charset=UTF-8">>)

\* C18 amended: the same, the extension being compared without regard to letter case
\* and the .txt entry being "text/plain; charset=UTF-8".
C18_ContentType == C18_Resolved(FALSE, <<"text/plain; charset=UTF-8">>)

\* C18 witness: storage omitted the type of a key ending in .M4A; audio/mp4 was inferred
C18_Witness ==
    /\ rOut.did
    /\ rIn.contentType = <<>>
    /\ C18_HasExt(rIn.key, <<".","M","4","A">>, TRUE)
    /\ rOut.contentType = <<"audio/mp4">>

-----------------------------------------------------------------------------
(* Fan-out and join                                                        *)

\* the byte fetches issued so far
C19_Gets == {i \in 1..Len(calls) : calls[i].op = "get"}

\* C19: in Attachments mode with two assets the two byte fetches are dispatched
\* concurrently: while the first fetch has not completed, the second one has already
\* been issued.
C19_FetchesConcurrent ==
    (fn = "email" /\ mode = "Attachments" /\ Len(items) = 2 /\ pc = "fetch" /\ Len(parts) = 0)
        => Cardinality(C19_Gets) = 2

C20_ProbeFailed == \E i \in 1..Len(cb) : cb[i].st = "failed"

\* C20: with two assets, the mode is decided only after both probes succeeded; from a
\* state in which a probe has failed the very next step is the error response (the other
\* probe is not waited for); after the response, a late probe result changes neither the
\* response nor the calls made nor the e-mail.
C20_FailFastJoin ==
    [][(fn = "email" /\ Len(items) = 2) =>
          /\ mode' # "none" => \A i \in 1..Len(cb') : cb'[i].st = "ok"
          /\ (pc = "awaitMeta" /\ C20_ProbeFailed) =>
                /\ pc' = "done"
                /\ response'.kind = "returned" /\ response'.statusCode >= 400
                /\ cb' = cb /\ calls' = calls /\ sent' = sent /\ mode' = "none"
          /\ pc = "done" =>
                /\ pc' = "done" /\ response' = response /\ calls' = calls
                /\ sent' = sent /\ mode' = mode /\ parts' = parts]_vars

\* C20 witness: the error response was produced while the other probe was still
\* outstanding
C20_Witness ==
    /\ fn = "email" /\ Len(items) = 2 /\ pc = "done"
    /\ cb[1].st = "failed" /\ cb[2].st = "awaiting"
    /\ response.statusCode >= 400 /\ mode = "none" /\ sent = NoSend

-----------------------------------------------------------------------------
(* The MIME builder on its own (lines 861-897)                             *)

MaxAttachments == 2

\* n bytes of object content
MimeBytes(n) == [i \in 1..n |-> (i * 37 + 11) % 256]

\* attachments a caller may pass: empty, short and multi-line contents; a filename
\* with a double quote; a filename with a line break
MimeAttachmentPool ==
    {[filename |-> <<"a",".","m","4","a">>, contentType |-> <<"audio/mp4">>, data |-> MimeBytes(0)],
     [filename |-> <<"t",".","t","x","t">>, contentType |-> <<"text/plain; charset=UTF-8">>,
      data |-> MimeBytes(2)],
     [filename |-> <<"b",".","w","a","v">>, contentType |-> <<"audio/wav">>, data |-> MimeBytes(57)],
     [filename |-> <<"a","\"","b",".","m","p","3">>, contentType |-> <<"audio/mpeg">>,
      data |-> MimeBytes(58)],
     [filename |-> <<"c",".","j","s","o","n">>, contentType |-> <<"application/json">>,
      data |-> MimeBytes(115)],
     [filename |-> <<"x","\r\n","Y",":","z">>, contentType |-> <<"application/octet-stream">>,
      data |-> MimeBytes(1)]}

\* text bodies: the handler's, one of several CRLF lines, one with a line that reads
\* like a boundary delimiter
MimeTextPool ==
    {renderEmailText([links |-> <<>>, hasAttachments |-> TRUE]),
     <<"one", "\r\n", "\r\n", "two">>,
     <<"intro", "\r\n", "--", "mixed_", "\r\n", "rest">>,
     <<>>}

MimeHtmlPool ==
    {renderEmailHtml([links |-> <<>>, hasAttachments |-> TRUE]),
     <<"<p>", "\r\n", "--", "alt_", "k", "3", "--", "\r\n", "</p>">>}

InitMime ==
    /\ fn = "email"
    /\ env = [REQUIRE_UID_PREFIX |-> FALSE, FIREBASE_PROJECT_ID |-> TRUE,
              ATTACHMENT_MAX_MB |-> "9", DOWNLOAD_URL_TTL_SECONDS |-> "unset"]
    /\ event = [preflight |-> FALSE, authz |-> NoHeader]
    /\ HandlerIdle
    /\ rIn \in [text : MimeTextPool, html : MimeHtmlPool,
                attachments : SeqsUpTo(MimeAttachmentPool, MaxAttachments),
                id1 : RandomIdPool, id2 : RandomIdPool]
    /\ rOut = [raw |-> <<>>, did |-> FALSE]

\* buildMimeMixed({from, to, subject, text, html, attachments})
BuildMime ==
    /\ ~rOut.did
    /\ rOut' = [raw |-> buildMimeMixed(FROM_EMAIL, Addr, Subject("email"), rIn.text, rIn.html,
                                       rIn.attachments, rIn.id1, rIn.id2),
                did |-> TRUE]
    /\ UNCHANGED <<fn, env, event, pc, user, payload, toEmail, items, cb, mode, fetchIdx,
                   parts, links, calls, sent, response, rIn>>

NextMime == BuildMime

SpecMime == InitMime /\ [][NextMime]_vars

-----------------------------------------------------------------------------
(* Reading a built message back (RFC 2046 multipart, RFC 2045 base64)      *)

\* the lines of a message: the pieces between CRLFs
C15_Lines(raw) ==
    LET ps == Positions(raw, "\r\n", 1) IN
    [k \in 1..(Len(ps) + 1) |->
        SubSeq(raw, IF k = 1 THEN 1 ELSE ps[k - 1] + 1,
                    IF k <= Len(ps) THEN ps[k] - 1 ELSE Len(raw))]

\* the body parts of a multipart body: the lines between successive delimiter lines,
\* up to the first close delimiter; <<>> when there is no close delimiter
C15_Parts(lines, boundary) ==
    LET delim  == <<"--">> \o boundary
        close  == delim \o <<"--">>
        closes == Positions(lines, close, 1)
    IN IF Len(closes) = 0 THEN <<>>
       ELSE LET c  == closes[1]
                ds == Positions(SubSeq(lines, 1, c - 1), delim, 1)
            IN [k \in 1..Len(ds) |->
                   SubSeq(lines, ds[k] + 1, (IF k < Len(ds) THEN ds[k + 1] ELSE c) - 1)]

\* the header lines of an entity: those before its first empty line
C15_Headers(lines) ==
    LET es == Positions(lines, <<>>, 1) IN
    IF Len(es) = 0 THEN lines ELSE SubSeq(lines, 1, es[1] - 1)

\* the body lines of an entity: those after its first empty line
C15_BodyLines(lines) ==
    LET es == Positions(lines, <<>>, 1) IN
    IF Len(es) = 0 THEN <<>> ELSE SubSeq(lines, es[1] + 1, Len(lines))

\* the value of a quoted parameter: what stands between the opening token and the next
\* double quote; <<"?">> when the line does not hold the parameter
C15_Quoted(line, open) ==
    LET os == Positions(line, open, 1) IN
    IF Len(os) = 0 THEN <<"?">>
    ELSE LET qs == Positions(line, "\"", os[1] + 1) IN
         IF Len(qs) = 0 THEN <<"?">> ELSE SubSeq(line, os[1] + 1, qs[1] - 1)

C15_B64Index(c) == CHOOSE k \in 0..63 : B64Alphabet[k + 1] = c

RECURSIVE C15_FromBase64(_)
\* the bytes a base64 text stands for
C15_FromBase64(t) ==
    IF Len(t) < 4 THEN <<>>
    ELSE LET a == C15_B64Index(t[1])
             b == C15_B64Index(t[2])
         IN IF t[3] = "=" THEN <<a * 4 + (b \div 16)>>
            ELSE LET c == C15_B64Index(t[3]) IN
                 IF t[4] = "=" THEN <<a * 4 + (b \div 16), (b % 16) * 16 + (c \div 4)>>
                 ELSE <<a * 4 + (b \div 16), (b % 16) * 16 + (c \div 4),
                        (c % 4) * 64 + C15_B64Index(t[4])>>
                      \o C15_FromBase64(SubSeq(t, 5, Len(t)))

\* the mixed boundary announced in the message header
C15_MixedBoundary(raw) ==
    LET hs == C15_Headers(C15_Lines(raw))
        is == {i \in 1..Len(hs) : hs[i] # <<>> /\
                  hs[i][1] = "Content-Type: multipart/mixed; boundary=\""}
    IN IF is = {} THEN <<"?">>
       ELSE C15_Quoted(hs[CHOOSE i \in is : TRUE], "Content-Type: multipart/mixed; boundary=\"")

\* the parts of the multipart/mixed body
C15_MixedParts(raw) == C15_Parts(C15_BodyLines(C15_Lines(raw)), C15_MixedBoundary(raw))

\* the message ends with the close delimiter of the mixed boundary
C15_Closed(raw) ==
    LET ls == C15_Lines(raw) IN
    ls[Len(ls)] = <<"--">> \o C15_MixedBoundary(raw) \o <<"--">>

\* one leaf part read back: its type line and its body
C15_Leaf(part) ==
    [type |-> IF Len(C15_Headers(part)) = 0 THEN <<"?">> ELSE C15_Headers(part)[1],
     encoding |-> IF Len(C15_Headers(part)) < 2 THEN <<"?">> ELSE C15_Headers(part)[2],
     body |-> Join(C15_BodyLines(part), <<"\r\n">>)]

\* the multipart/alternative part read back: its leaves
C15_Alternative(part) ==
    LET hs == C15_Headers(part)
        b  == IF Len(hs) = 1
              THEN C15_Quoted(hs[1], "Content-Type: multipart/alternative; boundary=\"")
              ELSE <<"?">>
        ps == C15_Parts(C15_BodyLines(part), b)
    IN [k \in 1..Len(ps) |-> C15_Leaf(ps[k])]

\* an attachment part read back
C15_Attachment(part) ==
    LET hs == C15_Headers(part) IN
    IF Len(hs) # 3 \/ hs[1] = <<>> \/ hs[1][1] # "Content-Type: "
    THEN [filename |-> <<"?">>, contentType |-> <<"?">>, data |-> <<>>, wellFormed |-> FALSE]
    ELSE LET ns == Positions(hs[1], "; name=\"", 1) IN
         [filename |-> C15_Quoted(hs[2], "Content-Disposition: attachment; filename=\""),
          contentType |-> IF Len(ns) = 0 THEN <<"?">> ELSE SubSeq(hs[1], 2, ns[1] - 1),
          data |-> C15_FromBase64(Concat(C15_BodyLines(part))),
          wellFormed |-> /\ hs[3] = <<"Content-Transfer-Encoding: base64">>
                         /\ C15_Quoted(hs[1], "; name=\"")
                              = C15_Quoted(hs[2], "Content-Disposition: attachment; filename=\"")
                         /\ hs[1][Len(hs[1])] = "\""
                         /\ hs[2][Len(hs[2])] = "\""]

-----------------------------------------------------------------------------
(* Claims about the built message                                          *)

\* the base64 body lines of the n-th attachment: the attachments are the last parts
\* of the mixed body
C13_BodyLines(n) ==
    LET ps == C15_MixedParts(rOut.raw)
        k  == Len(ps) - Len(rIn.attachments) + n
    IN IF k < 1 THEN << <<"?">> >> ELSE C15_BodyLines(ps[k])

C13_Wrapped(ls, b64) ==
    /\ Len(ls) >= 1
    /\ \A i \in 1..Len(ls) : Len(ls[i]) <= 76
    /\ \A i \in 1..(Len(ls) - 1) : Len(ls[i]) = 76
    /\ Concat(ls) = b64

\* C13: in every built message each attachment's base64 body is written in lines of at
\* most 76 characters, all but the last of exactly 76, and the lines concatenated are
\* the attachment's base64 encoding; this includes an attachment of 0 bytes.
C13_Base64Lines ==
    rOut.did =>
        \A n \in 1..Len(rIn.attachments) :
            C13_Wrapped(C13_BodyLines(n), toBase64(rIn.attachments[n].data))

\* C13 witness: a 115-byte attachment was written on three lines, next to an empty one
C13_Witness ==
    /\ rOut.did
    /\ Len(rIn.attachments) = 2
    /\ Len(rIn.attachments[1].data) = 0
    /\ Len(rIn.attachments[2].data) = 115
    /\ Len(C13_BodyLines(2)) = 3

\* C14: every line of the raw message the handler builds from its rendered bodies ends
\* with CRLF: no line feed stands without a carriage return before it, and the last
\* line is CRLF-terminated too.
C14_AllLinesCrlf ==
    (fn = "email" /\ sent.kind = "raw") =>
        /\ \A i \in 1..Len(sent.raw) : sent.raw[i] # "\n"
        /\ sent.raw[Len(sent.raw)] = "\r\n"

\* att.filename with every double quote replaced by an apostrophe
C15_Requoted(f) == [i \in 1..Len(f) |-> IF f[i] = "\"" THEN "'" ELSE f[i]]

\* what reading the message back must give for attachment att
C15_Expected(att, requote) ==
    [filename |-> IF requote THEN C15_Requoted(att.filename) ELSE att.filename,
     contentType |-> att.contentType, data |-> att.data, wellFormed |-> TRUE]

\* the message reads back as the alternative of text and html followed by the
\* attachments, and ends with the close delimiter
C15_ReadsBack(requote) ==
    LET ps == C15_MixedParts(rOut.raw) IN
    /\ Len(ps) = 1 + Len(rIn.attachments)
    /\ LET alt == C15_Alternative(ps[1]) IN
       /\ Len(alt) = 2
       /\ alt[1].type = <<"Content-Type: text/plain; charset=\"UTF-8\"">>
       /\ alt[1].body = rIn.text
       /\ alt[2].type = <<"Content-Type: text/html; charset=\"UTF-8\"">>
       /\ alt[2].body = rIn.html
    /\ \A n \in 1..Len(rIn.attachments) :
           C15_Attachment(ps[n + 1]) = C15_Expected(rIn.attachments[n], requote)
    /\ C15_Closed(rOut.raw)

\* the boundaries of this message
C15_Delimiters ==
    LET bm == <<"--", "mixed_">> \o rIn.id1
        ba == <<"--", "alt_">> \o rIn.id2
    IN {bm, bm \o <<"--">>, ba, ba \o <<"--">>}

\* no line of the text or the html reads like a delimiter, and no filename or content
\* type holds a line break
C15_Plain ==
    /\ \A i \in 1..Len(C15_Lines(rIn.text)) : C15_Lines(rIn.text)[i] \notin C15_Delimiters
    /\ \A i \in 1..Len(C15_Lines(rIn.html)) : C15_Lines(rIn.html)[i] \notin C15_Delimiters
    /\ \A n \in 1..Len(rIn.attachments) :
          /\ \A i \in 1..Len(rIn.attachments[n].filename) :
                rIn.attachments[n].filename[i] \notin {"\r\n", "\r", "\n"}
          /\ \A i \in 1..Len(rIn.attachments[n].contentType) :
                rIn.attachments[n].contentType[i] \notin {"\r\n", "\r", "\n"}

-----------------------------------------------------------------------------
(* Boundary tokens                                                         *)

\* the alternative boundary announced in the first part of the message
C21_AltBoundary(raw) ==
    LET ls == C15_Lines(raw)
        is == {i \in 1..Len(ls) : ls[i] # <<>> /\
                  ls[i][1] = "Content-Type: multipart/alternative; boundary=\""}
    IN IF is = {} THEN <<"?">>
       ELSE C15_Quoted(ls[CHOOSE i \in is : \A j \in is : i <= j],
                       "Content-Type: multipart/alternative; boundary=\"")

\* the content lines of the parts: the text, the html and every attachment's base64 body
C21_ContentLines ==
    {C15_Lines(rIn.text)[i] : i \in 1..Len(C15_Lines(rIn.text))}
    \cup {C15_Lines(rIn.html)[i] : i \in 1..Len(C15_Lines(rIn.html))}
    \cup UNION {{C15_Lines(chunk76(toBase64(rIn.attachments[n].data)))[i] :
                    i \in 1..Len(C15_Lines(chunk76(toBase64(rIn.attachments[n].data))))} :
                n \in 1..Len(rIn.attachments)}

\* line begins with the delimiter of boundary b
C21_BeginsWithDelimiter(line, b) ==
    LET d == <<"--">> \o b IN
    Len(line) >= Len(d) /\ SubSeq(line, 1, Len(d)) = d

-----------------------------------------------------------------------------
(* From an asset key to the attachment headers (lines 707-713, 790, 879-889) *)

\* directories and names the keys are made of; some hold double quotes
FilenameDirPool == {<<>>, RECORDINGS_PREFIX, <<"a","/","b","/">>, <<"q","\"","/">>}
FilenameNamePool ==
    {<<>>, <<"a",".","m","4","a">>, <<"a","\"","b",".","t","x","t">>, <<"\"">>, <<"c","\"","\"">>}
FilenameKeyPool == {d \o n : d \in FilenameDirPool, n \in FilenameNamePool}

InitFilename ==
    /\ fn = "email"
    /\ env = [REQUIRE_UID_PREFIX |-> FALSE, FIREBASE_PROJECT_ID |-> TRUE,
              ATTACHMENT_MAX_MB |-> "9", DOWNLOAD_URL_TTL_SECONDS |-> "unset"]
    /\ event = [preflight |-> FALSE, authz |-> NoHeader]
    /\ HandlerIdle
    /\ rIn \in [key : FilenameKeyPool,
                contentType : {<<"audio/mp4">>, <<"text/plain; charset=UTF-8">>},
                data : {MimeBytes(0), MimeBytes(3)},
                id1 : RandomIdPool, id2 : RandomIdPool]
    /\ rOut = [raw |-> <<>>, did |-> FALSE]

\* lines 707-713: the part is made from the asset (filename: filenameFromKey(m.key)) and
\* the message is built
AttachAndBuild ==
    /\ ~rOut.did
    /\ LET html == renderEmailHtml([links |-> <<>>, hasAttachments |-> TRUE])
           text == renderEmailText([links |-> <<>>, hasAttachments |-> TRUE])
           part == [filename |-> filenameFromKey(rIn.key), contentType |-> rIn.contentType,
                    data |-> rIn.data]
       IN rOut' = [raw |-> buildMimeMixed(FROM_EMAIL, Addr, Subject("email"), text, html,
                                          <<part>>, rIn.id1, rIn.id2),
                   did |-> TRUE]
    /\ UNCHANGED <<fn, env, event, pc, user, payload, toEmail, items, cb, mode, fetchIdx,
                   parts, links, calls, sent, response, rIn>>

NextFilename == AttachAndBuild

SpecFilename == InitFilename /\ [][NextFilename]_vars

\* the header lines of the attachment part of the message: the last part
C22_Headers ==
    LET ps == C15_MixedParts(rOut.raw) IN
    IF Len(ps) = 0 THEN << <<"?">>, <<"?">> >> ELSE C15_Headers(ps[Len(ps)])

\* the filename the claim describes: what follows the last slash of the key, its double
\* quotes replaced
C22_Described == C15_Requoted(C17_LastSegment(rIn.key))

\* a header line is exactly: opening, value, closing double quote
C22_Carries(line, open, value) == line = open \o value \o <<"\"">>

\* C22: the filename written into the name parameter of Content-Type and the filename
\* parameter of Content-Disposition is the part of the key after its last slash (the
\* whole key without a slash) with every double quote replaced; the quoted value holds
\* no double quote and no slash.
C22_FilenameHeaders ==
    rOut.did =>
        /\ Len(C22_Headers) = 3
        /\ C22_Carries(C22_Headers[1], <<"Content-Type: ">> \o rIn.contentType \o <<"; name=\"">>,
                       C22_Described)
        /\ C22_Carries(C22_Headers[2], <<"Content-Disposition: attachment; filename=\"">>,
                       C22_Described)
        /\ \A i \in 1..Len(C22_Described) : C22_Described[i] \notin {"\"", "/"}
        /\ C15_Quoted(C22_Headers[2], "Content-Disposition: attachment; filename=\"")
              = C22_Described
        /\ C15_Quoted(C22_Headers[1], "; name=\"") = C22_Described

\* C22 witness: a key with slashes and double quotes on both sides of the last slash
C22_Witness ==
    /\ rOut.did
    /\ rIn.key = <<"q","\"","/","c","\"","\"">>
    /\ C15_Quoted(C22_Headers[2], "Content-Disposition: attachment; filename=\"") = <<"c","'","'">>

-----------------------------------------------------------------------------
(* The attach-or-link decision on its own (lines 693-703, 200-210, 805-809) *)

\* object sizes around the limits; NoAsset: the key was not supplied
NoAsset == 0 - 1
DecideSizePool ==
    {0, 1, 2, 3, 3913725, 3913726, 3913728, 7827451, 7827452, 7827453, 7827454, 7827455,
     9437183, 9437184, 9437185}

\* the meta array for a recording and a transcription of the given sizes
DecideMeta(in) ==
    (IF in.recording # NoAsset
     THEN <<[key |-> KeyRecA, label |-> "Recording", size |-> in.recording,
             contentType |-> <<"audio/mp4">>]>>
     ELSE <<>>)
    \o (IF in.transcription # NoAsset
        THEN <<[key |-> KeyTrT, label |-> "Transcription", size |-> in.transcription,
                contentType |-> <<"text/plain; charset=UTF-8">>]>>
        ELSE <<>>)

InitDecide ==
    /\ fn = "email"
    /\ env \in [REQUIRE_UID_PREFIX : {FALSE}, FIREBASE_PROJECT_ID : {TRUE},
                ATTACHMENT_MAX_MB : AttachMaxPool, DOWNLOAD_URL_TTL_SECONDS : {"unset"}]
    /\ event = [preflight |-> FALSE, authz |-> NoHeader]
    /\ HandlerIdle
    /\ rIn \in [recording : DecideSizePool \cup {NoAsset},
                transcription : DecideSizePool \cup {NoAsset}]
    /\ rOut = [want |-> FALSE, wantV2 |-> FALSE, fits |-> FALSE, did |-> FALSE]

\* lines 693-703 (and 200-210): wantAttachments from the resolved sizes
DecideMode ==
    /\ ~rOut.did
    /\ rOut' = [want   |-> wantAttachments(DecideMeta(rIn), env),
                wantV2 |-> wantAttachmentsV2(DecideMeta(rIn), env),
                fits   |-> fitsSesLimitWhenBase64(DecideMeta(rIn)),
                did    |-> TRUE]
    /\ UNCHANGED <<fn, env, event, pc, user, payload, toEmail, items, cb, mode, fetchIdx,
                   parts, links, calls, sent, response, rIn>>

NextDecide == DecideMode

SpecDecide == InitDecide /\ [][NextDecide]_vars

C23_Size(n) == IF n = NoAsset THEN 0 ELSE n
C23_RawTotal == C23_Size(rIn.recording) + C23_Size(rIn.transcription)
C23_EncodedFits ==
    C1_Encoded(C23_Size(rIn.recording)) + C1_Encoded(C23_Size(rIn.transcription)) + 49152
        < 10485760

\* C23: with the default limits, every asset set whose combined size exceeds 9 MiB also
\* fails the encoded-size check; whenever attachments are chosen the combined size is at
\* most 7,827,453 bytes; a recording of 7,827,454 bytes up to 9 MiB is always linked.
C23_CeilingDecides ==
    (rOut.did /\ env.ATTACHMENT_MAX_MB = "9") =>
        /\ rOut.fits = C23_EncodedFits
        /\ C23_RawTotal > 9437184 => ~rOut.fits
        /\ rOut.want => C23_RawTotal <= 7827453
        /\ rOut.wantV2 => C23_RawTotal <= 7827453
        /\ (rIn.recording >= 7827454 /\ rIn.recording <= 9437184) => (~rOut.want /\ ~rOut.wantV2)

\* C23 witness: a lone recording of 7,827,454 bytes, within the 9 MiB limit, is linked
C23_Witness ==
    /\ rOut.did /\ env.ATTACHMENT_MAX_MB = "9"
    /\ rIn.recording = 7827454 /\ rIn.transcription = NoAsset
    /\ ~rOut.want /\ ~rOut.wantV2

-----------------------------------------------------------------------------
(* Upload presigning                                                       *)

\* the upload signatures requested so far
C24_Signatures == {i \in 1..Len(calls) : calls[i].op = "presignPut"}

\* v is a string with something other than white space in it
C24_NonBlank(v) == v.t = "string" /\ \E i \in 1..Len(v.s) : v.s[i] \notin WhiteSpace

\* every condition the claim lists holds for the request
C24_Valid ==
    /\ user # <<>>
    /\ payload.st = "ok"
    /\ C24_NonBlank(payload.key)
    /\ C24_NonBlank(payload.contentType)
    /\ C6_Passes(trim(payload.key.s))
    /\ trim(payload.contentType.s) \in
          {<<"audio/mp4">>, <<"audio/mpeg">>, <<"audio/wav">>, <<"text/plain">>}
    /\ 0 < payload.contentLength
    /\ payload.contentLength <= 15 * 1024 * 1024

\* C24: the upload-presign handler requests a signature (and answers 200) only for a
\* verified caller, non-blank string key and contentType, a key that passes the
\* tenancy/prefix rule, an allowed contentType and 0 < contentLength <= 15 MiB; in every
\* other non-preflight case it answers with an error status and requests no signature;
\* the signature is for the validated key, contentType and contentLength, for 60 s.
C24_SignsOnlyValid ==
    fn = "presign" =>
        /\ C24_Signatures # {} => C24_Valid
        /\ response.statusCode = 200 => (C24_Signatures # {} /\ C24_Valid)
        /\ (pc = "done" /\ ~event.preflight /\ ~C24_Valid) =>
              (response.statusCode >= 400 /\ C24_Signatures = {})
        /\ \A i \in C24_Signatures :
              /\ calls[i].key = trim(payload.key.s)
              /\ calls[i].contentType = trim(payload.contentType.s)
              /\ calls[i].contentLength = payload.contentLength
              /\ calls[i].expiresIn = 60
        /\ Cardinality(C24_Signatures) <= 1

====
